---- MODULE Spec2Model ----
(***************************************************************************)
(* Model of the RateMySite automation (ayush-e2m/Ready-art-work):          *)
(*   src/app.py                the production web variant ("app")          *)
(*   src/app_complete.py       the single-file web variant ("complete")    *)
(*   src/rate_site_terminal.py the command-line variant                    *)
(* Strings are sequences of one-character strings, so that startswith,     *)
(* strip and concatenation are computed, not assumed.                      *)
(***************************************************************************)
EXTENDS Integers, Sequences, FiniteSets, TLC

VARIABLES
    variant,           \* which program runs: "app", "complete" or "terminal"
    analysis_results,  \* the Run State (app.py:39): ordered dict, as a sequence of entries
    req,               \* per handler: the `u` parameters of the /stream request, until
                       \* the generator goes on from its first yield
    urls,              \* per handler: the stripped non-blank urls given to stream_analysis
    pc,                \* per handler: position of the stream_analysis generator
    idx,               \* per handler: loop index of stream_analysis (1-based)
    events,            \* per handler: the events yielded so far on this response
    http,              \* per handler: HTTP status of the /stream response (0 = none yet)
    apc,               \* per handler: position inside _analyze_one_with_debugging
    driver,            \* per handler: the local `driver`: "none", "open" or "closed"
    input_el,          \* per handler: the local `input_el`: "unset", "none" or "el"
    debug_log,         \* per handler: the local `debug_log`
    ret,               \* per handler: what _analyze_one_with_debugging returned / raised
    site,              \* per handler: ghost trace of what was done to browser sessions
    faults,            \* per handler: non-nominal environment outcomes in this batch
    xl,                \* the response of the last /download-excel request (or NoResponse)
    argv,              \* command-line variant: the command line (or NoArgs)
    status,            \* command-line variant: the exit status of the process (or NoStatus)
    out,               \* command-line variant: what was printed
    raw_text,          \* field parser harness: the visible text given to the parser
    grabbed,           \* field parser harness: what _grab_score and _grab_block returned
    page,              \* _find_first harness: the DOM, selector -> matches in document order
    xpaths,            \* _find_first harness: the ordered selector list
    found              \* _find_first harness: the result

vars == <<variant, analysis_results, req, urls, pc, idx, events, http, apc, driver,
          input_el, debug_log, ret, site, faults, xl, argv, status, out, raw_text, grabbed,
          page, xpaths, found>>

webVars == <<variant, analysis_results, req, urls, pc, idx, events, http, apc, driver,
             input_el, debug_log, ret, site, faults, xl>>

cliVars == <<argv, status, out>>

grabVars == <<raw_text, grabbed>>

findVars == <<page, xpaths, found>>

----------------------------------------------------------------------------
(* Bounds of the model *)

MaxUrls == 2       \* `u` parameters of one /stream request
MaxFaults == 1     \* non-nominal outcomes of the browser and the site in one batch
MaxSel == 2        \* selectors in the list given to _find_first
MaxMatches == 2    \* elements one selector matches in the DOM
MaxSegs == 3       \* labelled pieces the visible text is made of

----------------------------------------------------------------------------
(* Element Locator: _find_first *)

\* What el.is_displayed() does for an element of the DOM: returns True ("yes"),
\* returns False ("no"), raises StaleElementReferenceException ("stale") or raises
\* another WebDriverException ("error").
Shown == {"yes", "no", "stale", "error"}

RECURSIVE SeqsUpTo(_, _)
SeqsUpTo(S, n) ==
    IF n = 0 THEN {<<>>}
    ELSE LET shorter == SeqsUpTo(S, n - 1)
         IN shorter \cup {Append(s, x) : s \in {t \in shorter : Len(t) = n - 1}, x \in S}

\* None; an element is named by the position of its selector in the list and its
\* position among the selector's matches
NoElement == [kind |-> "none", xp |-> 0, pos |-> 0]

\* `found` before _find_first has been called
NotCalled == [kind |-> "unset", xp |-> 0, pos |-> 0]

\* driver.find_element(By.XPATH, xp): the first match in document order, or
\* NoSuchElementException when the selector matches nothing.
find_element(dom, xp) ==
    IF dom[xp] = <<>> THEN [kind |-> "NoSuchElementException", pos |-> 0]
    ELSE [kind |-> "el", pos |-> 1]

RECURSIVE find_first_from(_, _, _)
find_first_from(dom, xps, i) ==
    IF i > Len(xps) THEN NoElement
    ELSE LET el == find_element(dom, xps[i])
             shown == dom[xps[i]][el.pos]
         IN IF el.kind = "NoSuchElementException" THEN find_first_from(dom, xps, i + 1)
            ELSE IF shown = "stale" THEN find_first_from(dom, xps, i + 1)
            ELSE IF shown = "error" THEN [kind |-> "raise", xp |-> i, pos |-> el.pos]
            ELSE IF shown = "yes" THEN [kind |-> "el", xp |-> i, pos |-> el.pos]
            ELSE find_first_from(dom, xps, i + 1)

_find_first(dom, xps) == find_first_from(dom, xps, 1)

----------------------------------------------------------------------------
(* Strings *)

HTTP == <<"h", "t", "t", "p", ":", "/", "/">>
HTTPS == <<"h", "t", "t", "p", "s", ":", "/", "/">>
WWW == <<"w", "w", "w", ".">>
DASH == <<"-">>

\* str.startswith(prefix)
startswith(s, p) == Len(s) >= Len(p) /\ SubSeq(s, 1, Len(p)) = p

Whitespace == {" ", "\n", "\t"}

RECURSIVE lstrip(_)
lstrip(s) == IF s # <<>> /\ Head(s) \in Whitespace THEN lstrip(Tail(s)) ELSE s

RECURSIVE rstrip(_)
rstrip(s) ==
    IF s # <<>> /\ s[Len(s)] \in Whitespace THEN rstrip(SubSeq(s, 1, Len(s) - 1)) ELSE s

\* str.strip()
strip(s) == rstrip(lstrip(s))

\* str.replace(pat, ""): every non-overlapping occurrence removed, left to right
RECURSIVE remove_all(_, _)
remove_all(s, pat) ==
    IF s = <<>> THEN <<>>
    ELSE IF startswith(s, pat) THEN remove_all(SubSeq(s, Len(pat) + 1, Len(s)), pat)
    ELSE <<Head(s)>> \o remove_all(Tail(s), pat)

\* str.split(sep)[0] for a one-character separator
RECURSIVE split_first(_, _)
split_first(s, sep) ==
    IF s = <<>> \/ Head(s) = sep THEN <<>>
    ELSE <<Head(s)>> \o split_first(Tail(s), sep)

\* a normalisation that prepends the scheme whatever the url starts with
normalize_always(raw) == HTTPS \o raw

\* url = raw if raw.startswith(("http://", "https://")) else "https://" + raw
normalize(raw) ==
    IF startswith(raw, HTTP) \/ startswith(raw, HTTPS) THEN raw ELSE HTTPS \o raw

RECURSIVE SelectSeqMap(_, _)
\* [strip(u) for u in xs if strip(u)]
SelectSeqMap(xs, i) ==
    IF i > Len(xs) THEN <<>>
    ELSE IF strip(xs[i]) # <<>> THEN <<strip(xs[i])>> \o SelectSeqMap(xs, i + 1)
    ELSE SelectSeqMap(xs, i + 1)

\* a list of urls that keeps the blank parameters
stream_urls_unfiltered(params) == [i \in DOMAIN params |-> strip(params[i])]

\* urls = [u.strip() for u in request.args.getlist("u") if u.strip()]
stream_urls(params) == SelectSeqMap(params, 1)

----------------------------------------------------------------------------
(* Field Parser, structural variant (app.py) *)

Digits == {"0", "1", "2", "3", "4", "5", "6", "7", "8", "9"}

RECURSIVE skip_digits(_)
skip_digits(s) == IF s # <<>> /\ Head(s) \in Digits THEN skip_digits(Tail(s)) ELSE s

\* re.match(r'^\d+\.?\d*$', s)
is_number(s) ==
    /\ s # <<>>
    /\ Head(s) \in Digits
    /\ LET rest == skip_digits(s)
       IN \/ rest = <<>>
          \/ Head(rest) = "." /\ skip_digits(Tail(rest)) = <<>>

\* Sample characters outside [\w\s\.,;:()!?\-\'\"\/&], which _clean_text deletes
Stripped == {"#", "*", "@"}

\* re.sub(r'\s+', ' ', s)
RECURSIVE collapse_ws(_)
collapse_ws(s) ==
    IF s = <<>> THEN <<>>
    ELSE IF Head(s) \in Whitespace THEN <<" ">> \o collapse_ws(lstrip(s))
    ELSE <<Head(s)>> \o collapse_ws(Tail(s))

\* re.sub(r'[^\w\s\.,;:()!?\-\'\"\/&]', '', s)
delete_stripped(s) == SelectSeq(s, LAMBDA c : c \notin Stripped)

_clean_text(text) ==
    IF text = <<>> \/ text = DASH THEN DASH
    ELSE strip(delete_stripped(collapse_ws(strip(text))))

ScoreKeys == {"Consumer Score", "Developer Score", "Investor Score", "Clarity Score",
              "Visual Design Score", "UX Score", "Trust Score", "Value Prop Score"}

DescKey(k) ==
    CASE k = "Consumer Score" -> "Consumer Score Description"
      [] k = "Developer Score" -> "Developer Score Description"
      [] k = "Investor Score" -> "Investor Score Description"
      [] k = "Clarity Score" -> "Clarity Score Description"
      [] k = "Visual Design Score" -> "Visual Design Score Description"
      [] k = "UX Score" -> "UX Score Description"
      [] k = "Trust Score" -> "Trust Score Description"
      [] k = "Value Prop Score" -> "Value Prop Score Description"

\* The fixed key set of a Result Record (app.py:248-269)
RecordKeys ==
    {"Company", "URL", "Overall Score", "Description of Website"}
        \cup ScoreKeys \cup {DescKey(k) : k \in ScoreKeys}

\* soup.find(tag, class_=cls): index of the first node with the tag and the class, or 0
RECURSIVE soup_find(_, _, _, _)
soup_find(html, from, tag, cls) ==
    IF from > Len(html) THEN 0
    ELSE IF html[from].tag = tag /\ cls \subseteq html[from].cls THEN from
    ELSE soup_find(html, from + 1, tag, cls)

\* soup.find('h2', string=text): index of the first h2 with exactly that text, or 0
RECURSIVE soup_find_h2(_, _, _)
soup_find_h2(html, from, text) ==
    IF from > Len(html) THEN 0
    ELSE IF html[from].tag = "h2" /\ html[from].text = text THEN from
    ELSE soup_find_h2(html, from + 1, text)

AudienceKey(title) ==
    CASE title = "Consumer" -> "Consumer Score"
      [] title = "Developer" -> "Developer Score"
      [] title = "Investor" -> "Investor Score"
      [] OTHER -> ""

TechKey(title) ==
    CASE title = "Clarity" -> "Clarity Score"
      [] title = "Visual Design" -> "Visual Design Score"
      [] title = "UX" -> "UX Score"
      [] title = "Trust" -> "Trust Score"
      [] title = "Value Proposition" -> "Value Prop Score"
      [] OTHER -> ""

\* One iteration of `for card in ...cards:` (app.py:291-310, 319-344)
apply_card(result, card, key) ==
    IF card.h3 = <<>> \/ key = "" THEN result
    ELSE LET score == IF card.score # <<>> THEN strip(card.score[1]) ELSE DASH
             description == IF card.desc # <<>> THEN _clean_text(strip(card.desc[1])) ELSE DASH
         IN [result EXCEPT ![key] = score, ![DescKey(key)] = description]

RECURSIVE apply_cards(_, _, _, _)
apply_cards(result, cards, i, section) ==
    IF i > Len(cards) THEN result
    ELSE LET card == cards[i]
             key == IF card.h3 = <<>> THEN ""
                    ELSE IF section = "audience" THEN AudienceKey(card.h3[1])
                    ELSE TechKey(card.h3[1])
             skip == section = "tech" /\ "p-6" \notin card.cls
         IN apply_cards(IF skip THEN result ELSE apply_card(result, card, key),
                        cards, i + 1, section)

_parse_ratemysite_html(html, url) ==
    LET company_name ==
            split_first(remove_all(remove_all(remove_all(url, HTTPS), HTTP), WWW), "/")
        result0 == [k \in RecordKeys |->
                      IF k = "Company" THEN company_name ELSE IF k = "URL" THEN url ELSE DASH]
        overall == soup_find(html, 1, "span", {"text-5xl"})
        result1 == IF overall # 0 /\ is_number(strip(html[overall].text))
                   THEN [result0 EXCEPT !["Overall Score"] = strip(html[overall].text)]
                   ELSE result0
        desc == soup_find(html, 1, "p", {"text-xl", "text-white"})
        result2 == IF desc # 0
                   THEN [result1 EXCEPT !["Description of Website"] =
                                            _clean_text(strip(html[desc].text))]
                   ELSE result1
        audience == soup_find_h2(html, 1, "Audience Perspective")
        agrid == IF audience # 0 THEN soup_find(html, audience + 1, "div", {"grid"}) ELSE 0
        result3 == IF agrid # 0 THEN apply_cards(result2, html[agrid].cards, 1, "audience")
                   ELSE result2
        tech == soup_find_h2(html, 1, "Technical Criteria Scores")
        tgrid == IF tech # 0 THEN soup_find(html, tech + 1, "div", {"grid"}) ELSE 0
    IN IF tgrid # 0 THEN apply_cards(result3, html[tgrid].cards, 1, "tech") ELSE result3

\* error_data (app.py:514)
error_data(url) ==
    [k \in {"Company", "URL", "Overall Score"} |->
        IF k = "Company" THEN <<"Analysis Failed">> ELSE IF k = "URL" THEN url ELSE DASH]

----------------------------------------------------------------------------
(* Field Parser, textual variant (app_complete.py)                         *)
(* The visible text is a sequence of tokens: a word stands for its         *)
(* characters, while digits, separators, " " and "\n" are tokens of their  *)
(* own.  A label is the token sequence of its words and the spaces between *)
(* them, so a label is found where its words occur, not inside a word.     *)

\* flags=re.I on the tokens the model uses
lower(t) ==
    CASE t = "SCORE" -> "Score"
      [] t = "COMPANY" -> "Company"
      [] OTHER -> t

Letters(t) == t \notin Digits \cup Whitespace \cup Stripped \cup {":", "-", ".", "/"}

label_at(text, i, lab) ==
    /\ i + Len(lab) - 1 <= Len(text)
    /\ \A k \in 1..Len(lab) : lower(text[i + k - 1]) = lower(lab[k])

\* length of the run of whitespace tokens starting at position i
RECURSIVE ws_run(_, _)
ws_run(text, i) ==
    IF i <= Len(text) /\ text[i] \in Whitespace THEN 1 + ws_run(text, i + 1) ELSE 0

\* Where the group after `lab\s*[:\-]?\s*` may start when the label ends before
\* position j: <<rank, start>>, a higher rank being what the regex engine tries
\* first (longest first \s*, then the separator taken, then longest second \s*).
group_starts(text, j) ==
    LET n == Len(text) + 2
    IN {<<(a * 2 + 1) * n + b, j + a + 1 + b>> :
            <<a, b>> \in {<<a, b>> \in (0..ws_run(text, j)) \X (0..Len(text)) :
                            /\ j + a <= Len(text)
                            /\ text[j + a] \in {":", "-"}
                            /\ b <= ws_run(text, j + a + 1)}}
       \cup
       {<<(a * 2) * n + b, j + a + b>> :
            <<a, b>> \in {<<a, b>> \in (0..ws_run(text, j)) \X (0..Len(text)) :
                            b <= ws_run(text, j + a)}}

\* the most preferred start among those in `ok`, the positions where the group
\* can match
best_start(text, j, ok) ==
    LET cands == {c \in group_starts(text, j) : c[2] \in ok}
    IN IF cands = {} THEN 0
       ELSE (CHOOSE c \in cands : \A d \in cands : d[1] <= c[1])[2]

RECURSIVE digit_run(_, _)
digit_run(text, i) ==
    IF i <= Len(text) /\ text[i] \in Digits THEN 1 + digit_run(text, i + 1) ELSE 0

Min(a, b) == IF a < b THEN a ELSE b

\* re.search(rf"{lab}\s*[:\-]?\s*(\d{{1,3}})", text, flags=re.I): group 1, or <<>>
RECURSIVE search_score(_, _, _)
search_score(text, lab, i) ==
    IF i > Len(text) THEN <<>>
    ELSE LET s == IF label_at(text, i, lab)
                  THEN best_start(text, i + Len(lab),
                                  {p \in DOMAIN text : digit_run(text, p) >= 1})
                  ELSE 0
         IN IF s # 0 THEN SubSeq(text, s, s + Min(3, digit_run(text, s)) - 1)
            ELSE search_score(text, lab, i + 1)

\* a _grab_score in which the last label that matches wins
_grab_score_last(text, labels, k) ==
    LET ms == {j \in DOMAIN labels : search_score(text, labels[j], 1) # <<>>}
    IN IF ms = {} THEN DASH
       ELSE search_score(text, labels[CHOOSE j \in ms : \A i \in ms : i <= j], 1)

RECURSIVE _grab_score_from(_, _, _)
_grab_score_from(text, labels, k) ==
    IF k > Len(labels) THEN DASH
    ELSE LET m == search_score(text, labels[k], 1)
         IN IF m # <<>> THEN m ELSE _grab_score_from(text, labels, k + 1)

_grab_score(text, labels) == _grab_score_from(text, labels, 1)

\* length of the run of tokens other than "\n" starting at position i
RECURSIVE line_run(_, _)
line_run(text, i) ==
    IF i <= Len(text) /\ text[i] # "\n" THEN 1 + line_run(text, i + 1) ELSE 0

\* whether (?:\n\s*\n|\n[A-Z][^\n]{0,60}:\s|$) matches at position e (re.I, re.S)
block_end(text, e) ==
    \/ e = Len(text) + 1
    \/ e = Len(text) /\ text[e] = "\n"
    \/ /\ e <= Len(text) /\ text[e] = "\n"
       /\ \/ \E k \in (e + 1)..Len(text) :
                text[k] = "\n" /\ \A m \in (e + 1)..(k - 1) : text[m] \in Whitespace
          \/ /\ e + 1 <= Len(text) /\ Letters(text[e + 1])
             /\ \E k \in (e + 2)..(e + line_run(text, e + 1)) :
                    text[k] = ":" /\ k + 1 <= Len(text) /\ text[k + 1] \in Whitespace

\* re.search of _grab_block for one label: <<found, group 1>>
RECURSIVE search_block(_, _, _, _)
search_block(text, lab, multiline, i) ==
    IF i > Len(text) THEN <<FALSE, <<>>>>
    ELSE LET s == IF ~label_at(text, i, lab) THEN 0
                  ELSE IF multiline
                  THEN best_start(text, i + Len(lab), DOMAIN text)
                  ELSE best_start(text, i + Len(lab),
                                  {p \in DOMAIN text : line_run(text, p) >= 1})
         IN IF s = 0 THEN search_block(text, lab, multiline, i + 1)
            ELSE IF multiline
            THEN LET e == CHOOSE e \in (s + 1)..(Len(text) + 1) :
                              /\ block_end(text, e)
                              /\ \A f \in (s + 1)..(e - 1) : ~block_end(text, f)
                 IN <<TRUE, SubSeq(text, s, e - 1)>>
            ELSE <<TRUE, SubSeq(text, s, s + line_run(text, s) - 1)>>

RECURSIVE _grab_block_from(_, _, _, _)
_grab_block_from(text, labels, multiline, k) ==
    IF k > Len(labels) THEN DASH
    ELSE LET m == search_block(text, labels[k], multiline, 1)
         IN IF m[1] THEN strip(m[2]) ELSE _grab_block_from(text, labels, multiline, k + 1)

_grab_block(text, labels, multiline) == _grab_block_from(text, labels, multiline, 1)

L1(a) == <<a>>
L2(a, b) == <<a, " ", b>>
L3(a, b, c) == <<a, " ", b, " ", c>>

\* the label synonyms of _parse_fields (app_complete.py:237-241)
CompanyLabels == <<L1("Company"), L2("Site", "Name"), L2("Website", "Name")>>
OverallScoreLabels == <<L2("Overall", "Score"), L1("Score"), L2("Total", "Score")>>
DescriptionLabels ==
    <<L3("Description", "of", "Website"), L1("Description"), L2("Site", "Description")>>

_parse_fields(url, raw) ==
    [k \in {"Company", "URL", "Overall Score", "Description of Website"}
             \cup ScoreKeys \cup {"_raw"} |->
        CASE k = "Company" -> _grab_block(raw, CompanyLabels, FALSE)
          [] k = "URL" -> url
          [] k = "Overall Score" -> _grab_score(raw, OverallScoreLabels)
          [] k = "Description of Website" -> _grab_block(raw, DescriptionLabels, TRUE)
          [] k = "Consumer Score" ->
               _grab_score(raw, <<L2("Consumer", "Score"), L2("Customer", "Score"),
                                  L2("End-user", "Score")>>)
          [] k = "Developer Score" ->
               _grab_score(raw, <<L2("Developer", "Score"), L2("Engineer", "Score"),
                                  L2("Dev", "Score")>>)
          [] k = "Investor Score" -> _grab_score(raw, <<L2("Investor", "Score")>>)
          [] k = "Clarity Score" ->
               _grab_score(raw, <<L2("Clarity", "Score"), L2("Readability", "Score")>>)
          [] k = "Visual Design Score" ->
               _grab_score(raw, <<L3("Visual", "Design", "Score"), L2("Design", "Score")>>)
          [] k = "UX Score" ->
               _grab_score(raw, <<L2("UX", "Score"), L2("Usability", "Score")>>)
          [] k = "Trust Score" ->
               _grab_score(raw, <<L2("Trust", "Score"), L2("Credibility", "Score")>>)
          [] k = "Value Prop Score" ->
               _grab_score(raw, <<L3("Value", "Prop", "Score"),
                                  L3("Value", "Proposition", "Score")>>)
          [] k = "_raw" -> raw]

\* Pieces of visible text: a value under each of the synonyms of two fields, and
\* the line break
Segments ==
    {<<"Score", " ", "7">>,
     <<"Overall", " ", "Score", ":", " ", "8">>,
     <<"Total", " ", "Score", "-", "9">>,
     <<"Company", ":", " ", "Acme">>,
     <<"Site", " ", "Name", " ", "Beta">>,
     <<"Description", ":", " ", "Fine">>,
     <<"\n">>}

RECURSIVE concat(_)
concat(ss) == IF ss = <<>> THEN <<>> ELSE Head(ss) \o concat(Tail(ss))

\* the visible texts made of up to MaxSegs pieces
Texts == {concat(ss) : ss \in SeqsUpTo(Segments, MaxSegs)}

NotGrabbed == [score |-> <<>>, company |-> <<>>, description |-> <<>>]

----------------------------------------------------------------------------
(* The web application: requests, events, what the site can answer *)

Handlers == {"h1", "h2"}   \* request handlers of the server
MainHandler == "h1"        \* the handler of the single-threaded deployment (spec section 5)

\* The values a `u` query parameter takes in the requests of any length: blank,
\* and schemeless with padding
RawParams == {<<" ">>, <<" ", "a">>}

\* requests with urls that carry a scheme: alone, and beside the schemeless url
SchemeRequests ==
    {<<HTTP \o <<"b">>>>, <<HTTPS \o <<"a">>>>,
     <<<<" ", "a">>, HTTP \o <<"b">>>>, <<HTTP \o <<"b">>, <<" ", "a">>>>,
     <<<<" ", "a">>, HTTPS \o <<"a">>>>}

\* request.args.getlist("u") of the /stream requests the server is sent
Requests == SeqsUpTo(RawParams, MaxUrls) \cup {r \in SchemeRequests : Len(r) <= MaxUrls}

DEFAULT_TIMEOUT == 45
step_total == 5
RATEMYSITE_URL == <<"https://www.ratemysite.xyz/">>

Msg(text, arg) == <<text, arg>>

NoArgs == [url |-> <<>>, no_headless |-> FALSE, timeout |-> <<>>]
NoStatus == -1

\* The command lines of rate_site_terminal.py: the url, whether --no-headless is
\* given, and the value of --timeout when it is given
CommandLines ==
    {[url |-> u, no_headless |-> b, timeout |-> t] :
        u \in {<<"a">>, <<" ">> \o HTTP \o <<"b">>}, b \in BOOLEAN, t \in {<<>>, <<10>>}}

\* parse_args (rate_site_terminal.py:233-247)
parse_args(args) ==
    [url |-> args.url, no_headless |-> args.no_headless,
     timeout |-> IF args.timeout = <<>> THEN DEFAULT_TIMEOUT ELSE args.timeout[1]]

\* <<headless, timeout>> of the session and of its WebDriverWait: _make_driver(
\* headless=True) and WebDriverWait(driver, DEFAULT_TIMEOUT) in the web variants,
\* run(target_url=target, headless=not args.no_headless, timeout=args.timeout)
session_options ==
    IF variant = "terminal"
    THEN <<~parse_args(argv).no_headless, parse_args(argv).timeout>>
    ELSE <<TRUE, DEFAULT_TIMEOUT>>
Exc == <<"e">>     \* the text of an exception, f"{e}"

\* sse(event, data) for each event of the protocol: the event name and the keys of
\* its data (app.py:482-521; app_complete.py adds the static "rows" to init)
sse_init(total) == [event |-> "init", total |-> total]
sse_start_url(i, url) == [event |-> "start_url", index |-> i, url |-> url]
\* a progress event that always names the first url
sse_progress_first(i, phase, p) ==
    [event |-> "progress", index |-> 1, phase |-> phase, p |-> p, of |-> step_total]

sse_progress(i, phase, p) ==
    [event |-> "progress", index |-> i, phase |-> phase, p |-> p, of |-> step_total]
\* a debug event that always names the first url
sse_debug_first(i, m) == [event |-> "debug", index |-> 1, message |-> m]

sse_debug(i, m) == [event |-> "debug", index |-> i, message |-> m]
sse_result_data(i, url, data) == [event |-> "result", index |-> i, url |-> url, data |-> data]
sse_result_error(i, url) ==
    [event |-> "result", index |-> i, url |-> url,
     error |-> "No results found - check debug log"]
sse_done == [event |-> "done", ok |-> TRUE]

Node(tag, cls, text) == [tag |-> tag, cls |-> cls, text |-> text, cards |-> <<>>]
Grid(cards) == [tag |-> "div", cls |-> {"grid"}, text |-> <<>>, cards |-> cards]
Card(cls, h3, score, desc) == [cls |-> cls, h3 |-> h3, score |-> score, desc |-> desc]

\* driver.page_source of a fully rendered report
PageFull ==
    <<Node("span", {"text-5xl"}, <<"8", ".", "5">>),
      Node("p", {"text-xl", "text-white"}, <<"Clean", " ", "site">>),
      Node("h2", {}, "Audience Perspective"),
      Grid(<<Card({"p-6"}, <<"Consumer">>, <<<<"7">>>>, <<<<"Good">>>>),
             Card({"p-6"}, <<"Investor">>, <<<<"6">>>>, <<<<"Fair">>>>)>>),
      Node("h2", {}, "Technical Criteria Scores"),
      Grid(<<Card({"p-6"}, <<"Clarity">>, <<<<"9">>>>, <<<<"Clear">>>>),
             Card({"p-6"}, <<"Value Proposition">>, <<<<"5">>>>, <<<<"Vague">>>>)>>)>>

\* driver.page_source of a report rendered in part: a score that is no number, a
\* description of deleted characters only, cards without score or text
PagePartial ==
    <<Node("span", {"text-5xl"}, <<"N", "/", "A">>),
      Node("p", {"text-xl", "text-white"}, <<"#", " ", "*">>),
      Node("h2", {}, "Audience Perspective"),
      Grid(<<Card({}, <<"Developer">>, <<>>, <<<<"@">>>>),
             Card({}, <<>>, <<<<"3">>>>, <<>>)>>),
      Node("h2", {}, "Technical Criteria Scores"),
      Grid(<<Card({}, <<"UX">>, <<<<"4">>>>, <<>>),
             Card({"p-6"}, <<"Trust">>, <<<<>>>>, <<<<"Ok">>>>)>>)>>

\* visible result text of a fully rendered report
TextFull ==
    <<"Company", ":", " ", "Acme", "\n",
      "Overall", " ", "Score", ":", " ", "8", "5", "\n",
      "Description", ":", " ", "Clean", " ", "site", "\n", "\n",
      "Trust", " ", "SCORE", " ", "-", " ", "7">>

\* visible result text of a report rendered in part (_collect_result_text strips
\* what it returns, so the text neither starts nor ends with whitespace)
TextPartial == <<"Loading", "\n", "Score", " ", "1", "2", "3", "4", "\n", "Company", ":">>

\* what extraction can return when it finds something, the nominal value first
Rendered == IF variant = "app" THEN <<PageFull, PagePartial>> ELSE <<TextFull, TextPartial>>

\* input_xpaths (app.py:157-162, app_complete.py:133-140)
input_xpaths ==
    IF variant = "app"
    THEN <<"//input[@type='text']", "//input[@placeholder]", "//input", "//textarea">>
    ELSE <<"//input[@type='url']", "//input[contains(@placeholder,'https')]",
           "//input[contains(@placeholder,'http')]",
           "//input[contains(@placeholder,'Enter') or contains(@placeholder,'enter')]",
           "//input", "//textarea">>

\* xpaths of _click_best_button (app.py:52-61)
button_xpaths ==
    <<"//button[..'analy']", "//button[..'rate']", "//button[..'submit']",
      "//button[..'generate']", "//button[..'get report']", "//button[@type='submit']",
      "//button", "//div[@role='button']">>

\* candidates of _maybe_close_cookie_banner (app.py:77-84)
cookie_xpaths ==
    <<"//button[..'accept']", "//button[..'agree']", "//button[..'allow']",
      "//button[..'ok']", "//*[contains(@class,'cookie')]//button",
      "//*[@id='onetrust-accept-btn-handler']">>

Range(f) == {f[i] : i \in DOMAIN f}

\* a DOM in which the selectors of `xps` match nothing, but for `some`
Dom(xps, some) == [x \in Range(xps) |-> IF x \in DOMAIN some THEN some[x] ELSE <<>>]

\* the DOMs the input fallback meets once the presence wait has failed
InputDoms ==
    {Dom(input_xpaths, <<>>),
     Dom(input_xpaths, "//input" :> <<"no", "yes">>),
     Dom(input_xpaths, "//input" :> <<"stale">> @@ "//textarea" :> <<"yes">>),
     Dom(input_xpaths, "//input" :> <<"error">>)}

\* the DOMs _click_best_button meets, the nominal one first
ButtonDoms ==
    <<Dom(button_xpaths, "//button[..'analy']" :> <<"yes">>),
      Dom(button_xpaths, <<>>),
      Dom(button_xpaths, "//button" :> <<"no">> @@ "//div[@role='button']" :> <<"yes">>),
      Dom(button_xpaths, "//button" :> <<"error">>)>>

\* the DOMs _maybe_close_cookie_banner meets, the nominal one first
CookieDoms ==
    <<Dom(cookie_xpaths, <<>>),
      Dom(cookie_xpaths, "//button[..'accept']" :> <<"yes">>),
      Dom(cookie_xpaths, "//button[..'ok']" :> <<"error">>)>>

----------------------------------------------------------------------------
(* The Run State: analysis_results, an insertion-ordered dict.  Each entry *)
(* carries a ghost field `by`: the handler whose running batch stored it,  *)
(* or "old" once that handler is through with the batch.                   *)

dict_keys(d) == {d[i].k : i \in DOMAIN d}

dict_get(d, key) == d[CHOOSE i \in DOMAIN d : d[i].k = key].v

\* a store that keeps the value a key already has
dict_set_keeping(d, key, value, h) ==
    IF key \in dict_keys(d) THEN d ELSE Append(d, [k |-> key, v |-> value, by |-> h])

\* d[key] = value
dict_set(d, key, value, h) ==
    IF key \in dict_keys(d)
    THEN [i \in DOMAIN d |-> IF d[i].k = key THEN [k |-> key, v |-> value, by |-> h] ELSE d[i]]
    ELSE Append(d, [k |-> key, v |-> value, by |-> h])

\* list(d.values())
dict_values(d) == [i \in DOMAIN d |-> d[i].v]

retire(d, h) == [i \in DOMAIN d |-> IF d[i].by = h THEN [d[i] EXCEPT !.by = "old"] ELSE d[i]]

\* result.get(key, default)
record_get(r, key, default) == IF key \in DOMAIN r THEN r[key] ELSE default

NoResponse == [status |-> 0, error |-> "", sheet |-> <<>>]
NoReturn == [kind |-> "none", raw |-> <<>>]

\* The columns create_excel_report writes, one per result: the header cell and
\* the cell of every metric row (app.py:393-397, 447-449)
create_excel_report(results_data) ==
    [i \in DOMAIN results_data |->
        [header |-> record_get(results_data[i], "Company", <<"Unknown">>),
         cells |-> [k \in RecordKeys |-> record_get(results_data[i], k, DASH)]]]

----------------------------------------------------------------------------
(* Requests *)

Free(h) == pc[h] = "idle"

\* the response has ended: by the 400, by `done`, or by an exception of the generator
Ended(h) == pc[h] \in {"rejected", "finished", "raised"}

cur_url(h) == normalize(urls[h][idx[h]])

\* the parameter target_url of the analysis: the url of the loop in the web
\* variants, the target of the command line in run()
target_url(h) == IF variant = "terminal" THEN urls[h][1] ELSE cur_url(h)

emit(h, e) == events' = [events EXCEPT ![h] = Append(@, e)]

analysisVars == <<apc, driver, input_el, debug_log, ret, site, faults>>

\* a /stream that empties the Run State before it looks at its parameters
stream_resetting(h, params) ==
    /\ variant # "terminal"
    /\ Free(h)
    /\ req' = [req EXCEPT ![h] = params]
    /\ urls' = [urls EXCEPT ![h] = stream_urls(params)]
    /\ IF stream_urls(params) = <<>>
       THEN /\ http' = [http EXCEPT ![h] = 400]
            /\ pc' = [pc EXCEPT ![h] = "rejected"]
       ELSE /\ http' = [http EXCEPT ![h] = 200]
            /\ pc' = [pc EXCEPT ![h] = "new"]
    /\ analysis_results' = <<>>
    /\ xl' = NoResponse
    /\ UNCHANGED <<findVars, grabVars, cliVars, variant, idx, events, analysisVars>>

\* GET /stream (app.py:527-532, app_complete.py:734-739): the route handler
stream(h, params) ==
    /\ variant # "terminal"
    /\ Free(h)
    /\ req' = [req EXCEPT ![h] = params]
    /\ urls' = [urls EXCEPT ![h] = stream_urls(params)]
    /\ IF stream_urls(params) = <<>>
       THEN /\ http' = [http EXCEPT ![h] = 400]
            /\ pc' = [pc EXCEPT ![h] = "rejected"]
       ELSE /\ http' = [http EXCEPT ![h] = 200]
            /\ pc' = [pc EXCEPT ![h] = "new"]
    /\ xl' = NoResponse
    /\ UNCHANGED <<findVars, grabVars, cliVars, variant, analysis_results, idx, events, analysisVars>>

\* a generator start that keeps the Run State of the batch before
gen_start_keeping(h) ==
    /\ pc[h] = "new"
    /\ emit(h, sse_init(Len(urls[h])))
    /\ pc' = [pc EXCEPT ![h] = "init"]
    /\ xl' = NoResponse
    /\ UNCHANGED <<findVars, grabVars, cliVars, variant, analysis_results, req, urls, idx, http,
                   analysisVars>>

\* stream_analysis up to `yield sse("init", ...)` (app.py:486-490, app_complete.py:273-274)
gen_start(h) ==
    /\ pc[h] = "new"
    /\ analysis_results' = IF variant = "app" THEN <<>> ELSE analysis_results
    /\ emit(h, sse_init(Len(urls[h])))
    /\ pc' = [pc EXCEPT ![h] = "init"]
    /\ xl' = NoResponse
    /\ UNCHANGED <<findVars, grabVars, cliVars, variant, req, urls, idx, http, analysisVars>>

\* the loop head, one more url: up to `yield sse("start_url", ...)`
start_url(h) ==
    /\ pc[h] \in {"init", "p5"}
    /\ idx[h] < Len(urls[h])
    /\ idx' = [idx EXCEPT ![h] = @ + 1]
    /\ emit(h, sse_start_url(idx[h] + 1, normalize(urls[h][idx[h] + 1])))
    /\ pc' = [pc EXCEPT ![h] = "start_url"]
    /\ req' = [req EXCEPT ![h] = <<>>]
    /\ xl' = NoResponse
    /\ UNCHANGED <<findVars, grabVars, cliVars, variant, analysis_results, urls, http, analysisVars>>

\* the loop head, no url left: `yield sse("done", {"ok": True})`
done(h) ==
    /\ pc[h] \in {"init", "p5"}
    /\ idx[h] >= Len(urls[h])
    /\ emit(h, sse_done)
    /\ pc' = [pc EXCEPT ![h] = "finished"]
    /\ req' = [req EXCEPT ![h] = <<>>]
    /\ xl' = NoResponse
    /\ UNCHANGED <<findVars, grabVars, cliVars, variant, analysis_results, urls, idx, http, analysisVars>>

\* `cur` of app_complete.py:279-304 after n increments; app.py writes 1, 2, 3 and
\* step_total
progress_p(n) == IF variant = "app" /\ n = 4 THEN step_total ELSE n

progress1(h) ==
    /\ pc[h] = "start_url"
    /\ emit(h, sse_progress(idx[h], "Creating fresh browser", progress_p(1)))
    /\ pc' = [pc EXCEPT ![h] = "p1"]
    /\ xl' = NoResponse
    /\ UNCHANGED <<findVars, grabVars, cliVars, variant, analysis_results, req, urls, idx, http, analysisVars>>

\* after this yield the generator, when resumed, calls _analyze_one_with_debugging
\* (app.py:502), whose locals start afresh
progress2(h) ==
    /\ pc[h] = "p1"
    /\ emit(h, sse_progress(idx[h], "Submitting to RateMySite", progress_p(2)))
    /\ pc' = [pc EXCEPT ![h] = "p2"]
    /\ apc' = [apc EXCEPT ![h] = "start"]
    /\ debug_log' = [debug_log EXCEPT ![h] = <<>>]
    /\ driver' = [driver EXCEPT ![h] = "none"]
    /\ input_el' = [input_el EXCEPT ![h] = "unset"]
    /\ ret' = [ret EXCEPT ![h] = NoReturn]
    /\ xl' = NoResponse
    /\ UNCHANGED <<findVars, grabVars, cliVars, variant, analysis_results, req, urls, idx, http, site, faults>>

\* `for msg in debug_messages: yield sse("debug", ...)` and the yield of the third
\* progress event: the loop touches nothing but the response, so its yields are
\* taken in one step
debug(h) ==
    /\ pc[h] = "p2" /\ apc[h] = "returned"
    /\ events' = [events EXCEPT ![h] =
                    @ \o [k \in DOMAIN debug_log[h] |-> sse_debug(idx[h], debug_log[h][k])]]
    /\ pc' = [pc EXCEPT ![h] = "debug"]
    /\ apc' = [apc EXCEPT ![h] = "none"]
    /\ xl' = NoResponse
    /\ UNCHANGED <<findVars, grabVars, cliVars, variant, analysis_results, req, urls, idx, http, driver, input_el,
                   debug_log, ret, site, faults>>

progress3(h) ==
    /\ pc[h] = "debug"
    /\ emit(h, sse_progress(idx[h], "Parsing output", progress_p(3)))
    /\ pc' = [pc EXCEPT ![h] = "p3"]
    /\ xl' = NoResponse
    /\ UNCHANGED <<findVars, grabVars, cliVars, variant, analysis_results, req, urls, idx, http, analysisVars>>

\* a result step that stores no record for a url whose extraction is empty
result_unrecorded(h) ==
    /\ pc[h] = "p3"
    /\ LET url == cur_url(h)
           raw == ret[h].raw
       IN IF variant = "app" /\ raw # <<>>
          THEN LET data == _parse_ratemysite_html(raw, url)
               IN /\ analysis_results' = dict_set(analysis_results, url, data, h)
                  /\ emit(h, sse_result_data(idx[h], url, data))
          ELSE /\ UNCHANGED analysis_results
               /\ IF raw # <<>>
                  THEN emit(h, sse_result_data(idx[h], url, _parse_fields(url, raw)))
                  ELSE emit(h, sse_result_error(idx[h], url))
    /\ pc' = [pc EXCEPT ![h] = "result"]
    /\ xl' = NoResponse
    /\ UNCHANGED <<findVars, grabVars, cliVars, variant, req, urls, idx, http, analysisVars>>

\* `if raw_html: ... else: ...` up to `yield sse("result", ...)` (app.py:509-516,
\* app_complete.py:298-302)
result(h) ==
    /\ pc[h] = "p3"
    /\ LET url == cur_url(h)
           raw == ret[h].raw
       IN IF variant = "app"
          THEN IF raw # <<>>
               THEN LET data == _parse_ratemysite_html(raw, url)
                    IN /\ analysis_results' = dict_set(analysis_results, url, data, h)
                       /\ emit(h, sse_result_data(idx[h], url, data))
               ELSE /\ analysis_results' = dict_set(analysis_results, url, error_data(url), h)
                    /\ emit(h, sse_result_error(idx[h], url))
          ELSE /\ UNCHANGED analysis_results
               /\ IF raw # <<>>
                  THEN emit(h, sse_result_data(idx[h], url, _parse_fields(url, raw)))
                  ELSE emit(h, sse_result_error(idx[h], url))
    /\ pc' = [pc EXCEPT ![h] = "result"]
    /\ xl' = NoResponse
    /\ UNCHANGED <<findVars, grabVars, cliVars, variant, req, urls, idx, http, analysisVars>>

progress5(h) ==
    /\ pc[h] = "result"
    /\ emit(h, sse_progress(idx[h], "Done", progress_p(4)))
    /\ pc' = [pc EXCEPT ![h] = "p5"]
    /\ xl' = NoResponse
    /\ UNCHANGED <<findVars, grabVars, cliVars, variant, analysis_results, req, urls, idx, http, analysisVars>>

\* whether the generator is suspended at a yield
Suspended(h) ==
    \/ pc[h] \in {"init", "start_url", "p1", "debug", "p3", "result", "p5"}
    \/ pc[h] = "p2" /\ apc[h] = "start"

\* The handler is through with its request and free for the next one: the
\* response has ended, or the client went away and the generator was closed at the
\* yield it was suspended at.  The response and the generator's locals are gone;
\* what the batch stored in the Run State stays, as the record of an earlier batch.
release(h) ==
    /\ Ended(h) \/ Suspended(h)
    /\ pc' = [pc EXCEPT ![h] = "idle"]
    /\ req' = [req EXCEPT ![h] = <<>>]
    /\ urls' = [urls EXCEPT ![h] = <<>>]
    /\ idx' = [idx EXCEPT ![h] = 0]
    /\ events' = [events EXCEPT ![h] = <<>>]
    /\ http' = [http EXCEPT ![h] = 0]
    /\ apc' = [apc EXCEPT ![h] = "none"]
    /\ driver' = [driver EXCEPT ![h] = "none"]
    /\ input_el' = [input_el EXCEPT ![h] = "unset"]
    /\ debug_log' = [debug_log EXCEPT ![h] = <<>>]
    /\ ret' = [ret EXCEPT ![h] = NoReturn]
    /\ site' = [site EXCEPT ![h] = <<>>]
    /\ faults' = [faults EXCEPT ![h] = 0]
    /\ analysis_results' = retire(analysis_results, h)
    /\ xl' = NoResponse
    /\ UNCHANGED <<findVars, grabVars, cliVars, variant>>

\* a /download-excel that builds the spreadsheet without looking whether there
\* are results
download_excel_unguarded ==
    /\ variant = "app"
    /\ \A h \in Handlers : Free(h) \/ pc[h] \in {"init", "p5", "finished"}
    /\ xl' = [status |-> 200, error |-> "",
              sheet |-> create_excel_report(dict_values(analysis_results))]
    /\ UNCHANGED <<findVars, grabVars, cliVars, variant, analysis_results, req, urls, pc, idx, events, http,
                   analysisVars>>

\* GET /download-excel (app.py:534-555).  It reads nothing but analysis_results,
\* which only gen_start and result write, so it is taken where a handler is free,
\* at the head of its loop or through with it: the Run State it can see elsewhere
\* is seen there.
download_excel ==
    /\ variant = "app"
    /\ \A h \in Handlers : Free(h) \/ pc[h] \in {"init", "p5", "finished"}
    /\ IF analysis_results = <<>>
       THEN xl' = [status |-> 400, error |-> "No analysis results available", sheet |-> <<>>]
       ELSE \E raises \in BOOLEAN :
               xl' = IF raises
                     THEN [status |-> 500, error |-> "Failed to create Excel file",
                           sheet |-> <<>>]
                     ELSE [status |-> 200, error |-> "",
                           sheet |-> create_excel_report(dict_values(analysis_results))]
    /\ UNCHANGED <<findVars, grabVars, cliVars, variant, analysis_results, req, urls, pc, idx, events, http,
                   analysisVars>>

----------------------------------------------------------------------------
(* _analyze_one_with_debugging (app.py:142-230, app_complete.py:120-216),  *)
(* one action per interaction with the browser.  What the browser and the  *)
(* site answer is chosen by the action; an answer other than the nominal   *)
(* one counts against MaxFaults, but for a page without an input field    *)
(* whose body can be read, with which the analysis is over early.          *)

\* an entry of `site`: what was done, for which url of the batch, with what text
Op(h, name, arg) == <<name, idx[h], arg>>

\* the `except Exception as e:` clause (app.py:220-223, app_complete.py:210-213)
ErrorMsgs == <<Msg("ERROR in analysis: ", Exc), Msg("Traceback: ", Exc)>>

Returned(raw) == [kind |-> "return", raw |-> raw]

\* One step of the function: the answer costs c, msgs are appended to debug_log
\* (run() keeps none), lines are printed, ops are done to the browser, and control
\* goes to `to`.
step_out(h, c, msgs, lines, ops, to, r, drv, inp) ==
    /\ faults[h] + c <= MaxFaults
    /\ faults' = [faults EXCEPT ![h] = @ + c]
    /\ debug_log' = IF variant = "terminal" THEN debug_log
                    ELSE [debug_log EXCEPT ![h] = @ \o msgs]
    /\ out' = out \o lines
    /\ site' = [site EXCEPT ![h] = @ \o ops]
    /\ apc' = [apc EXCEPT ![h] = to]
    /\ ret' = [ret EXCEPT ![h] = r]
    /\ driver' = [driver EXCEPT ![h] = drv]
    /\ input_el' = [input_el EXCEPT ![h] = inp]
    /\ pc' = IF to = "raised" /\ variant # "terminal" THEN [pc EXCEPT ![h] = "raised"] ELSE pc
    /\ xl' = NoResponse
    /\ UNCHANGED <<findVars, grabVars, argv, status, variant, analysis_results, req, urls, idx, events,
                   http>>

\* a step that prints nothing
step(h, c, msgs, ops, to, r, drv, inp) == step_out(h, c, msgs, <<>>, ops, to, r, drv, inp)

\* a step that changes neither the session nor input_el and has not returned
go(h, c, msgs, ops, to) == step(h, c, msgs, ops, to, ret[h], driver[h], input_el[h])

\* an exception on its way out of run(), which has no except clause
Raising == [kind |-> "raise", raw |-> <<>>]

\* a step in which an exception is raised inside the try: it reaches the except
\* clause of the web variants; in run() it passes through the finally clause
\* (rate_site_terminal.py:229-230)
except(h, msgs, ops) ==
    IF variant = "terminal"
    THEN step(h, 1, <<>>, ops, "finally", Raising, driver[h], input_el[h])
    ELSE step(h, 1, msgs \o ErrorMsgs, ops, "finally", Returned(<<>>), driver[h], input_el[h])

\* the generator is inside the call of app.py:502, or the process inside run()
At(h, where) == pc[h] \in {"p2", "run"} /\ apc[h] = where

\* driver = _make_driver(headless=True): inside the try in app.py (147-148), before
\* the try in app_complete.py (122) and in run() (rate_site_terminal.py:157-158),
\* where its exception leaves the function
make_driver(h) ==
    /\ At(h, "start")
    /\ \E ok \in BOOLEAN :
          IF ok
          THEN step(h, 0, <<Msg("Creating fresh Chrome driver...", <<>>)>>,
                    <<Op(h, "create", session_options)>>, "navigate", ret[h], "open",
                    input_el[h])
          ELSE IF variant = "app"
          THEN except(h, <<Msg("Creating fresh Chrome driver...", <<>>)>>,
                      <<Op(h, "create_failed", session_options)>>)
          ELSE go(h, 1, <<>>, <<Op(h, "create_failed", session_options)>>, "raised")

\* driver.get(RATEMYSITE_URL)
navigate(h) ==
    /\ At(h, "navigate")
    /\ \E ok \in BOOLEAN :
          IF ok
          THEN go(h, 0, <<Msg("Navigating to ", RATEMYSITE_URL)>>, <<Op(h, "get", <<>>)>>,
                  "cookie")
          ELSE except(h, <<Msg("Navigating to ", RATEMYSITE_URL)>>, <<>>)

\* _maybe_close_cookie_banner (app.py:76-94): click is what btn.click() does: "ok",
\* "js" (intercepted, then clicked by script) or "raise"; nothing it raises leaves it
_maybe_close_cookie_banner(dom, click) ==
    LET btn == _find_first(dom, cookie_xpaths)
    IN IF btn.kind = "el" /\ click \in {"ok", "js"} THEN <<"cookie_click">> ELSE <<>>

cookie(h) ==
    /\ At(h, "cookie")
    /\ \E clicks \in {_maybe_close_cookie_banner(CookieDoms[d], click) :
                            d \in DOMAIN CookieDoms, click \in {"ok", "js", "raise"}} :
             go(h, IF clicks = <<>> THEN 0 ELSE 1,
                <<Msg("Checking for cookie banners...", <<>>)>>,
                <<Op(h, "cookie_check", <<>>)>>
                    \o [k \in DOMAIN clicks |-> Op(h, clicks[k], <<>>)], "locate")

\* app.py:164-181, rate_site_terminal.py:174-183: the presence wait, the fallback
\* to _find_first, the early return; run() reads the body text unguarded
locate_input(h) ==
    /\ At(h, "locate")
    /\ LET looking == Msg("Looking for input field...", <<>>)
           failed == Msg("Wait condition failed: ", Exc)
           find == <<Op(h, "find", <<>>)>>
           no_input == Msg("[!] Could not locate an input field on the page.", <<>>)
       IN \/ step(h, 0, <<looking, Msg("Found input field using wait condition", <<>>)>>,
                  find, "enter", ret[h], driver[h], "el")
          \/ \E kind \in {_find_first(dom, input_xpaths).kind : dom \in InputDoms} :
                \/ kind = "raise" /\ except(h, <<looking, failed>>, find)
                \/ /\ kind = "el"
                   /\ step(h, 1,
                           <<looking, failed,
                             Msg("Found input field using fallback method", <<>>)>>,
                           find, "enter", ret[h], driver[h], "el")
                \/ /\ kind = "none"
                   /\ \E body \in BOOLEAN :
                         IF variant = "terminal"
                         THEN step_out(h, IF body THEN 0 ELSE 1, <<>>,
                                       IF body THEN <<no_input, Msg("", <<"text">>)>>
                                       ELSE <<no_input>>,
                                       find, "finally",
                                       IF body THEN Returned(<<>>) ELSE Raising,
                                       driver[h], "none")
                         ELSE step(h, IF body THEN 0 ELSE 1,
                                   <<looking, failed,
                                     Msg("ERROR: Could not locate input field!", <<>>),
                                     IF body THEN Msg("Body text: ", <<"text">>)
                                     ELSE Msg("Could not get body text: ", Exc)>>,
                                   find, "finally", Returned(<<>>), driver[h], "none")

\* an enter_url that leaves the input field as it is
enter_url_skipping(h) ==
    /\ At(h, "enter")
    /\ go(h, 0, <<Msg("Entering URL: ", target_url(h))>>, <<>>, "submit")

\* app.py:183-189: input_el.clear() may fail, which nothing shows;
\* input_el.send_keys(target_url) may raise
enter_url(h) ==
    /\ At(h, "enter")
    /\ \E cleared \in BOOLEAN :
          LET entering == Msg("Entering URL: ", target_url(h))
              clear == Op(h, IF cleared THEN "clear" ELSE "clear_failed", <<>>)
          IN \/ go(h, IF cleared THEN 0 ELSE 1, <<entering>>,
                   <<clear, Op(h, "type", target_url(h))>>, "submit")
             \/ except(h, <<entering>>, <<clear>>)

\* a _click_best_button that reports False although it has clicked
_click_best_button_unreported(dom, enabled, click) ==
    LET btn == _find_first(dom, button_xpaths)
    IN IF btn.kind = "raise" THEN <<"raise", <<>>>>
       ELSE IF btn.kind = "none" THEN <<"False", <<>>>>
       ELSE IF enabled = "yes" /\ click \in {"ok", "js"} THEN <<"False", <<"click">>>>
       ELSE <<"False", <<>>>>

\* _click_best_button (app.py:51-74): enabled is what btn.is_enabled() does, click
\* what btn.click() does ("js": intercepted, then clicked by script).  The result
\* is <<what it returns, what was done to the page>>, "raise" when _find_first
\* raises.
_click_best_button(dom, enabled, click) ==
    LET btn == _find_first(dom, button_xpaths)
    IN IF btn.kind = "raise" THEN <<"raise", <<>>>>
       ELSE IF btn.kind = "none" THEN <<"False", <<>>>>
       ELSE IF enabled = "yes" /\ click \in {"ok", "js"} THEN <<"True", <<"click">>>>
       ELSE <<"False", <<>>>>

\* what the page, the button and the click can make of a call of _click_best_button
ButtonOutcomes ==
    {_click_best_button(ButtonDoms[d], enabled, click) :
        d \in DOMAIN ButtonDoms, enabled \in {"yes", "no", "raise"},
        click \in {"ok", "js", "raise"}}

\* app.py:191-201, rate_site_terminal.py:193-199: click, or Enter when
\* _click_best_button returned False; a failing Enter is logged or passed over
submit(h) ==
    /\ At(h, "submit")
    /\ LET attempting == Msg("Attempting to submit...", <<>>)
       IN \E clicked \in ButtonOutcomes, enter \in BOOLEAN :
             LET c == IF clicked[1] = "True" THEN 0 ELSE 1
                 done_by_button == [k \in DOMAIN clicked[2] |-> Op(h, clicked[2][k], <<>>)]
             IN IF clicked[1] = "raise" THEN except(h, <<attempting>>, <<>>)
                ELSE IF clicked[1] = "True"
                THEN go(h, c,
                        <<attempting, Msg("Successfully clicked submit button", <<>>)>>,
                        done_by_button, "wait")
                ELSE IF enter
                THEN go(h, c,
                        <<attempting, Msg("Button click failed, trying Enter key...", <<>>),
                          Msg("Sent Enter key", <<>>)>>,
                        done_by_button \o <<Op(h, "enter", <<>>)>>, "wait")
                ELSE go(h, c,
                        <<attempting, Msg("Button click failed, trying Enter key...", <<>>),
                          Msg("Enter key failed: ", Exc)>>,
                        done_by_button \o <<Op(h, "enter_failed", <<>>)>>, "wait")

\* app.py:203-211, app_complete.py:181-192, rate_site_terminal.py:201-211: the
\* marker wait and what follows its TimeoutException: time.sleep(5) in app.py,
\* _wait_for_content_growth with the same WebDriverWait in the other two, which
\* swallows its own TimeoutException.  A wait is recorded with how it ended
\* ("found" / "grown", "timeout", "error" for another exception) and its timeout.
wait_render(h) ==
    /\ At(h, "wait")
    /\ LET waiting == Msg("Waiting for results to load...", <<>>)
           marker(o) == Op(h, "wait_marker", <<o, session_options[2]>>)
           growth(o) == Op(h, "wait_growth", <<o, session_options[2]>>)
           growing == Msg("No result container found, waiting for content growth...", <<>>)
       IN \/ go(h, 0,
                <<waiting,
                  IF variant = "app" THEN Msg("Found Overall Score element", <<>>)
                  ELSE Msg("Found result container", <<>>)>>,
                <<marker("found")>>, "extract")
          \/ except(h, <<waiting>>, <<marker("error")>>)
          \/ /\ variant = "app"
             /\ go(h, 1,
                   <<waiting,
                     Msg("Overall Score not found, waiting for general content...", <<>>)>>,
                   <<marker("timeout"), Op(h, "sleep", <<>>)>>, "extract")
          \/ /\ variant # "app"
             /\ \/ except(h, <<waiting, growing>>, <<marker("timeout"), growth("error")>>)
                \/ \E o \in {"grown", "timeout"} :
                      go(h, 1,
                         <<waiting, growing, Msg("Finished waiting for content growth", <<>>)>>,
                         <<marker("timeout"), growth(o)>>, "extract")

\* app.py:213-218 with _collect_result_html (96-101), which returns "" when it
\* fails; app_complete.py:194-208 and rate_site_terminal.py:216-227 with
\* _collect_result_text, which may raise; run() prints what the web variants return
extract(h) ==
    /\ At(h, "extract")
    /\ LET ops == <<Op(h, "extract", <<>>)>>
           c(raw) == IF raw = Rendered[1] THEN 0 ELSE 1
           header == Msg("==== RateMySite result ====", <<>>)
           footer == Msg("==== END ====", <<>>)
       IN CASE variant = "app" ->
                 \E raw \in Range(Rendered) \cup {<<>>} :
                    step(h, c(raw),
                         <<Msg("Extracting result HTML...", <<>>),
                           Msg("Extracted characters of HTML: ", <<ToString(Len(raw))>>)>>,
                         ops, "finally", Returned(raw), driver[h], input_el[h])
            [] variant = "complete" ->
                 \/ except(h, <<Msg("Extracting result text...", <<>>)>>, ops)
                 \/ \E raw \in Range(Rendered) :
                       step(h, c(raw),
                            <<Msg("Extracting result text...", <<>>),
                              Msg("Extracted characters of result text: ",
                                  <<ToString(Len(raw))>>)>>,
                            ops, "finally", Returned(raw), driver[h], input_el[h])
                 \/ \E body \in BOOLEAN :
                       step(h, 1,
                            <<Msg("Extracting result text...", <<>>),
                              Msg("Extracted characters of result text: ", <<"0">>),
                              Msg("No result text found! Getting page debug info...", <<>>)>>
                              \o (IF body
                                  THEN <<Msg("Full page text length: ", <<"n">>),
                                         Msg("Page text preview: ", <<"text">>)>>
                                  ELSE <<Msg("Could not get page text: ", Exc)>>),
                            ops, "finally", Returned(<<>>), driver[h], input_el[h])
            [] variant = "terminal" ->
                 \/ except(h, <<>>, ops)
                 \/ \E raw \in Range(Rendered) :
                       step_out(h, c(raw), <<>>, <<header, Msg("", raw), footer>>,
                                ops, "finally", Returned(<<>>), driver[h], input_el[h])
                 \/ \E body \in BOOLEAN :
                       step_out(h, 1, <<>>,
                                <<header, Msg("(No visible result text was found.)", <<>>),
                                  IF body THEN Msg("", <<"text">>)
                                  ELSE Msg("(Could not read page body.)", <<>>),
                                  footer>>,
                                ops, "finally", Returned(<<>>), driver[h], input_el[h])

\* a finally clause that never quits the session
teardown_leaking(h) ==
    /\ At(h, "finally")
    /\ go(h, 0, <<>>, <<>>, "returned")

\* the finally clause: `if driver:` and a guarded quit in app.py (224-230), an
\* unguarded quit in app_complete.py (214-216) and in run()
\* (rate_site_terminal.py:229-230), whose exception replaces the return; an
\* exception on its way out of run() goes on after the quit
teardown(h) ==
    /\ At(h, "finally")
    /\ IF variant = "app" /\ driver[h] = "none"
       THEN go(h, 0, <<>>, <<>>, "returned")
       ELSE \E ok \in BOOLEAN :
               step(h, IF ok THEN 0 ELSE 1, <<Msg("Closing driver...", <<>>)>>,
                    <<Op(h, IF ok THEN "quit" ELSE "quit_failed", <<>>)>>,
                    IF (ok \/ variant = "app") /\ ret[h] # Raising THEN "returned"
                    ELSE "raised",
                    ret[h], "closed", input_el[h])

----------------------------------------------------------------------------
(* The command-line program (rate_site_terminal.py:250-256)                *)

\* a __main__ block that puts https:// before a target without a scheme
main_normalizing(h, args) ==
    /\ variant = "terminal"
    /\ pc[h] = "idle"
    /\ argv' = args
    /\ pc' = [pc EXCEPT ![h] = "run"]
    /\ urls' = [urls EXCEPT ![h] = <<normalize(strip(parse_args(args).url))>>]
    /\ idx' = [idx EXCEPT ![h] = 1]
    /\ apc' = [apc EXCEPT ![h] = "start"]
    /\ UNCHANGED <<findVars, grabVars, out, status, variant, analysis_results, req, events, http,
                   driver, input_el, debug_log, ret, site, faults, xl>>

\* the __main__ block up to the call of run(), or to sys.exit(1)
main(h, args) ==
    /\ variant = "terminal"
    /\ pc[h] = "idle"
    /\ argv' = args
    /\ LET target == strip(parse_args(args).url)
       IN IF ~(startswith(target, HTTP) \/ startswith(target, HTTPS))
          THEN /\ out' = <<Msg("[!] Please provide a full URL starting with http:// or https://",
                               <<>>)>>
               /\ status' = 1
               /\ pc' = [pc EXCEPT ![h] = "exited"]
               /\ UNCHANGED <<urls, idx, apc>>
          ELSE /\ pc' = [pc EXCEPT ![h] = "run"]
               /\ urls' = [urls EXCEPT ![h] = <<target>>]
               /\ idx' = [idx EXCEPT ![h] = 1]
               /\ apc' = [apc EXCEPT ![h] = "start"]
               /\ UNCHANGED <<out, status>>
    /\ UNCHANGED <<findVars, grabVars, variant, analysis_results, req, events, http, driver, input_el,
                   debug_log, ret, site, faults, xl>>

\* run() is left and the process ends: status 0 when run() returned, 1 when an
\* exception left it
exit(h) ==
    /\ pc[h] = "run"
    /\ apc[h] \in {"returned", "raised"}
    /\ status' = IF apc[h] = "returned" THEN 0 ELSE 1
    /\ pc' = [pc EXCEPT ![h] = "exited"]
    /\ UNCHANGED <<findVars, grabVars, argv, out, variant, analysis_results, req, urls, idx, events,
                   http, analysisVars, xl>>

----------------------------------------------------------------------------
(* The single-threaded deployment: one handler serves the requests one     *)
(* after the other; /download-excel is answered between any two steps.     *)
(* The command-line program runs once.                                     *)

InitWeb ==
    /\ variant \in {"app", "complete", "terminal"}
    /\ analysis_results = <<>>
    /\ req = [h \in Handlers |-> <<>>]
    /\ urls = [h \in Handlers |-> <<>>]
    /\ pc = [h \in Handlers |-> "idle"]
    /\ idx = [h \in Handlers |-> 0]
    /\ events = [h \in Handlers |-> <<>>]
    /\ http = [h \in Handlers |-> 0]
    /\ apc = [h \in Handlers |-> "none"]
    /\ driver = [h \in Handlers |-> "none"]
    /\ input_el = [h \in Handlers |-> "unset"]
    /\ debug_log = [h \in Handlers |-> <<>>]
    /\ ret = [h \in Handlers |-> NoReturn]
    /\ site = [h \in Handlers |-> <<>>]
    /\ faults = [h \in Handlers |-> 0]
    /\ xl = NoResponse
    /\ argv = NoArgs
    /\ status = NoStatus
    /\ out = <<>>

Init ==
    /\ InitWeb
    /\ raw_text = <<>>
    /\ grabbed = NotGrabbed
    /\ page = <<>>
    /\ xpaths = <<>>
    /\ found = NotCalled

Next ==
    \/ \E params \in Requests : stream(MainHandler, params)
    \/ gen_start(MainHandler)
    \/ start_url(MainHandler)
    \/ progress1(MainHandler)
    \/ progress2(MainHandler)
    \/ make_driver(MainHandler)
    \/ navigate(MainHandler)
    \/ cookie(MainHandler)
    \/ locate_input(MainHandler)
    \/ enter_url(MainHandler)
    \/ submit(MainHandler)
    \/ wait_render(MainHandler)
    \/ extract(MainHandler)
    \/ teardown(MainHandler)
    \/ debug(MainHandler)
    \/ progress3(MainHandler)
    \/ result(MainHandler)
    \/ progress5(MainHandler)
    \/ done(MainHandler)
    \/ release(MainHandler)
    \/ download_excel
    \/ \E args \in CommandLines : main(MainHandler, args)
    \/ exit(MainHandler)

Spec == Init /\ [][Next]_vars

----------------------------------------------------------------------------
(* The threaded deployment of app.py: two handlers serve one /stream       *)
(* request each, their generators interleaved at will over the one global  *)
(* analysis_results.  The browser and the site give answers that cost       *)
(* nothing against MaxFaults.                                               *)

\* the /stream requests the two clients send: one url each
ThreadRequests == {r \in SchemeRequests : Len(r) = 1}

InitThreaded ==
    /\ variant = "app"
    /\ analysis_results = <<>>
    /\ req = [h \in Handlers |-> <<>>]
    /\ urls = [h \in Handlers |-> <<>>]
    /\ pc = [h \in Handlers |-> "idle"]
    /\ idx = [h \in Handlers |-> 0]
    /\ events = [h \in Handlers |-> <<>>]
    /\ http = [h \in Handlers |-> 0]
    /\ apc = [h \in Handlers |-> "none"]
    /\ driver = [h \in Handlers |-> "none"]
    /\ input_el = [h \in Handlers |-> "unset"]
    /\ debug_log = [h \in Handlers |-> <<>>]
    /\ ret = [h \in Handlers |-> NoReturn]
    /\ site = [h \in Handlers |-> <<>>]
    /\ faults = [h \in Handlers |-> MaxFaults]
    /\ xl = NoResponse
    /\ argv = NoArgs
    /\ status = NoStatus
    /\ out = <<>>
    /\ raw_text = <<>>
    /\ grabbed = NotGrabbed
    /\ page = <<>>
    /\ xpaths = <<>>
    /\ found = NotCalled

NextThreaded ==
    \E h \in Handlers :
        \/ \E params \in ThreadRequests : stream(h, params)
        \/ gen_start(h)
        \/ start_url(h)
        \/ progress1(h)
        \/ progress2(h)
        \/ make_driver(h)
        \/ navigate(h)
        \/ cookie(h)
        \/ locate_input(h)
        \/ enter_url(h)
        \/ submit(h)
        \/ wait_render(h)
        \/ extract(h)
        \/ teardown(h)
        \/ debug(h)
        \/ progress3(h)
        \/ result(h)
        \/ progress5(h)
        \/ done(h)

SpecThreaded == InitThreaded /\ [][NextThreaded]_vars

----------------------------------------------------------------------------
(* _find_first on its own: any DOM in which each selector of the list      *)
(* matches up to MaxMatches elements, each with its own is_displayed().    *)

InitFind ==
    /\ InitWeb
    /\ raw_text = <<>>
    /\ grabbed = NotGrabbed
    /\ xpaths = [i \in 1..MaxSel |-> i]
    /\ page \in [1..MaxSel -> SeqsUpTo(Shown, MaxMatches)]
    /\ found = NotCalled

find_first ==
    /\ found = NotCalled
    /\ found' = _find_first(page, xpaths)
    /\ UNCHANGED <<webVars, cliVars, grabVars, page, xpaths>>

NextFind == find_first

SpecFind == InitFind /\ [][NextFind]_vars

----------------------------------------------------------------------------
(* The textual field parser on its own: the fields of _parse_fields with    *)
(* label synonyms, grabbed from any text made of up to MaxSegs pieces.      *)

InitGrab ==
    /\ InitWeb
    /\ page = <<>>
    /\ xpaths = <<>>
    /\ found = NotCalled
    /\ raw_text \in Texts
    /\ grabbed = NotGrabbed

grab ==
    /\ grabbed = NotGrabbed
    /\ grabbed' = [score |-> _grab_score(raw_text, OverallScoreLabels),
                   company |-> _grab_block(raw_text, CompanyLabels, FALSE),
                   description |-> _grab_block(raw_text, DescriptionLabels, TRUE)]
    /\ UNCHANGED <<webVars, cliVars, findVars, raw_text>>

NextGrab == grab

SpecGrab == InitGrab /\ [][NextGrab]_vars

----------------------------------------------------------------------------
(* Properties of the streaming protocol and of error handling *)

\* positions of the events of one name in the response of handler h
Named(h, name) == {i \in DOMAIN events[h] : events[h][i].event = name}

\* positions of the events of one name for the url of index k
NamedFor(h, name, k) == {i \in Named(h, name) : events[h][i].index = k}

\* the response stream of h is over: the generator returned or raised
StreamOver(h) == pc[h] \in {"finished", "raised"}

\* C1: in every batch the first event is `init`, no `result` comes before `init`,
\* and `done` is emitted exactly once, as the last event of the stream: a stream
\* that is over ends with its only `done`.
C1_InitFirstDoneLast ==
    \A h \in Handlers :
        LET ev == events[h]
        IN /\ ev # <<>> => ev[1].event = "init"
           /\ \A i \in Named(h, "result") : \E j \in Named(h, "init") : j < i
           /\ Cardinality(Named(h, "done")) <= 1
           /\ \A i \in Named(h, "done") : i = Len(ev)
           /\ StreamOver(h) => ev # <<>> /\ ev[Len(ev)].event = "done"

\* C2: every Result Record, emitted in a `result` event or stored in the Run State,
\* has exactly the fixed key set, whether extraction succeeded or failed.
C2_FullKeySet ==
    /\ \A h \in Handlers : \A i \in Named(h, "result") :
          "data" \in DOMAIN events[h][i] => DOMAIN events[h][i].data = RecordKeys
    /\ \A n \in DOMAIN analysis_results : DOMAIN analysis_results[n].v = RecordKeys

\* C3: a failure while one url is analysed does not abort the batch: a stream that
\* is over holds a `start_url` and a `result` event for every url of the batch.
C3_BatchNotAborted ==
    \A h \in Handlers :
        StreamOver(h) =>
            \A k \in 1..Len(urls[h]) :
                NamedFor(h, "start_url", k) # {} /\ NamedFor(h, "result", k) # {}

\* C4: _analyze_one_with_debugging never raises to its caller: whenever it is left,
\* it is left by returning its pair.
C4_AlwaysReturns ==
    \A h \in Handlers : apc[h] # "raised" /\ (apc[h] = "returned" => ret[h].kind = "return")

\* with a scheme as stream_analysis knows them
HasScheme(raw) == \E p \in {HTTP, HTTPS} : Len(raw) >= Len(p) /\ SubSeq(raw, 1, Len(p)) = p

\* url is what the raw url is to become
NormalOf(raw, url) == IF HasScheme(raw) THEN url = raw ELSE url = HTTPS \o raw

\* C5: every raw url of a batch is normalized before use: without a scheme it gets
\* exactly https:// prepended, with http:// or https:// it is unchanged; the
\* normalized url is the one typed into the site, reported in `start_url` and
\* `result` events and used as the key of the Run State.
C5_Normalized ==
    \A h \in Handlers :
        LET ev == events[h]
        IN /\ \A i \in Named(h, "start_url") \cup Named(h, "result") :
                 NormalOf(urls[h][ev[i].index], ev[i].url)
           /\ \A n \in DOMAIN site[h] :
                 site[h][n][1] = "type" => NormalOf(urls[h][site[h][n][2]], site[h][n][3])
           /\ \A n \in DOMAIN analysis_results :
                 analysis_results[n].by = h =>
                     \E k \in 1..idx[h] : NormalOf(urls[h][k], analysis_results[n].k)
           /\ variant = "app" =>
                 \A i \in Named(h, "result") : ev[i].url \in dict_keys(analysis_results)

\* a finished batch of a schemeless url and one with a scheme, both typed into the
\* site, reported and stored
C5_Witness ==
    \E h \in Handlers :
        /\ variant = "app" /\ pc[h] = "finished"
        /\ urls[h] = <<<<"a">>, HTTP \o <<"b">>>>
        /\ {events[h][i].url : i \in Named(h, "result")} = {HTTPS \o <<"a">>, HTTP \o <<"b">>}
        /\ dict_keys(analysis_results) = {HTTPS \o <<"a">>, HTTP \o <<"b">>}
        /\ {site[h][n][3] : n \in {m \in DOMAIN site[h] : site[h][m][1] = "type"}}
              = {HTTPS \o <<"a">>, HTTP \o <<"b">>}

\* the spreadsheet holds one column per record of the Run State, in its order,
\* headed by the record's company and holding the record's values
SheetOfRunState(sheet) ==
    /\ Len(sheet) = Len(analysis_results)
    /\ \A n \in DOMAIN analysis_results :
          LET r == analysis_results[n].v
          IN /\ sheet[n].header = r["Company"]
             /\ \A k \in DOMAIN r \cap RecordKeys : sheet[n].cells[k] = r[k]

C7_ReplacedAtStart ==
    variant = "app" =>
        \A h \in Handlers :
            /\ Named(h, "init") # {} =>
                  \A n \in DOMAIN analysis_results : analysis_results[n].by = h
            /\ Named(h, "done") # {} =>
                  dict_keys(analysis_results)
                      = {CHOOSE u \in {urls[h][k], HTTPS \o urls[h][k]} : NormalOf(urls[h][k], u) :
                            k \in 1..Len(urls[h])}

\* a batch is done with two records in the Run State
C7_Witness ==
    \E h \in Handlers :
        /\ variant = "app" /\ Named(h, "done") # {}
        /\ Len(analysis_results) = 2
        /\ \A n \in DOMAIN analysis_results : analysis_results[n].by = h

----------------------------------------------------------------------------
(* Properties of the browser sessions and of the order of events *)

\* positions in the trace of h of the operations of the given names on the session
\* of url k
Ops(h, names, k) ==
    {n \in DOMAIN site[h] : site[h][n][1] \in names /\ site[h][n][2] = k}

\* positions of all operations of the given names
AllOps(h, names) == {n \in DOMAIN site[h] : site[h][n][1] \in names}

EventNames == {"init", "start_url", "progress", "debug", "result", "done"}

\* Where the order  init (start_url progress* debug* progress result progress)* done
\* stands after the first n events of ev, for `total` urls: <<place, index of the
\* url>>, the place being "bad" once an event was out of order.
RECURSIVE order_after(_, _, _)
order_after(ev, total, n) ==
    IF n = 0 THEN <<"start", 0>>
    ELSE LET before == order_after(ev, total, n - 1)
             at == before[1]
             i == before[2]
             e == ev[n]
         IN CASE at = "start" /\ e.event = "init" -> <<"head", 0>>
              [] at = "head" /\ e.event = "start_url" /\ e.index = i + 1 /\ i + 1 <= total ->
                     <<"started", i + 1>>
              [] at = "head" /\ e.event = "done" /\ i = total -> <<"end", i>>
              [] at \in {"started", "progress"} /\ e.event = "progress" /\ e.index = i ->
                     <<"progress", i>>
              [] at \in {"started", "progress", "debug"} /\ e.event = "debug" /\ e.index = i ->
                     <<"debug", i>>
              [] at = "debug" /\ e.event = "progress" /\ e.index = i -> <<"parsing", i>>
              [] at \in {"progress", "parsing"} /\ e.event = "result" /\ e.index = i ->
                     <<"result", i>>
              [] at = "result" /\ e.event = "progress" /\ e.index = i -> <<"head", i>>
              [] OTHER -> <<"bad", i>>

\* where the response of h stands in that order
OrderOf(h) ==
    IF events[h] = <<>> THEN <<"start", 0>>
    ELSE order_after(events[h],
                     IF events[h][1].event = "init" THEN events[h][1].total ELSE 0,
                     Len(events[h]))

\* C9: the response holds only events named init, start_url, progress, debug,
\* result and done; for each url index i they come in the order start_url(i),
\* progress(i)*, debug(i)*, progress(i), result(i), progress(i); the indexes run
\* from 1 to total, each url's events before the next url's.
C9_EventOrder ==
    \A h \in Handlers :
        /\ \A n \in DOMAIN events[h] : events[h][n].event \in EventNames
        /\ OrderOf(h)[1] # "bad"
        /\ pc[h] = "finished" => OrderOf(h) = <<"end", events[h][1].total>>

\* a finished response for two urls, with debug events for both
C9_Witness ==
    \E h \in Handlers :
        /\ pc[h] = "finished"
        /\ OrderOf(h) = <<"end", 2>>
        /\ NamedFor(h, "debug", 1) # {} /\ NamedFor(h, "debug", 2) # {}

----------------------------------------------------------------------------
(* Property of the Element Locator *)

\* the positions in the list of the selectors that have a visible match in the DOM
WithVisibleMatch(dom, xps) ==
    {i \in DOMAIN xps : \E j \in DOMAIN dom[xps[i]] : dom[xps[i]][j] = "yes"}

\* C10: _find_first returns the first visible matching element, the match of the
\* earliest selector of the list that has a visible match, or None when no
\* selector has one; a missing or stale element never makes it raise.
C10_FirstVisibleMatch ==
    found # NotCalled =>
        LET visible == WithVisibleMatch(page, xpaths)
        IN IF found.kind = "raise"
           THEN page[xpaths[found.xp]][found.pos] \notin {"stale"}
           ELSE IF visible = {} THEN found = NoElement
           ELSE /\ found.kind = "el"
                /\ \A i \in visible : found.xp <= i
                /\ page[xpaths[found.xp]][found.pos] = "yes"

----------------------------------------------------------------------------
(* Properties of the steps of one analysis *)

\* C11: in every variant the Render Waiter waits for the result marker first, and
\* only when that wait times out it polls for growth of the visible body text,
\* under the same timeout: a marker wait that timed out is followed by the growth
\* poll of the same url with the same timeout, and a growth poll is never run but
\* right after a marker wait that timed out.
C11_MarkerThenGrowth ==
    \A h \in Handlers : \A n \in DOMAIN site[h] :
        LET op == site[h][n]
        IN /\ (op[1] = "wait_marker" /\ op[3][1] = "timeout") =>
                 /\ n < Len(site[h])
                 /\ site[h][n + 1][1] = "wait_growth"
                 /\ site[h][n + 1][2] = op[2]
                 /\ site[h][n + 1][3][2] = op[3][2]
           /\ op[1] = "wait_growth" =>
                 /\ n > 1
                 /\ site[h][n - 1][1] = "wait_marker"
                 /\ site[h][n - 1][2] = op[2]
                 /\ site[h][n - 1][3][1] = "timeout"

\* C12: submission is click or else Enter.  _click_best_button returns True exactly
\* when it has clicked a button; after the target url is typed, Enter is sent to
\* the input (send_keys("\n") is called, successfully or not) if and only if
\* _click_best_button returned False, so that by the time the render wait starts
\* exactly one of the two was done for the url, and never both.
C12_ClickOrEnter ==
    /\ \A o \in ButtonOutcomes :
          /\ o[1] = "True" <=> o[2] = <<"click">>
          /\ o[1] # "True" => o[2] = <<>>
    /\ \A h \in Handlers : \A k \in 1..Len(urls[h]) :
          LET clicks == Ops(h, {"click"}, k)
              enters == Ops(h, {"enter", "enter_failed"}, k)
          IN /\ Cardinality(clicks) + Cardinality(enters) <= 1
             /\ \A n \in clicks \cup enters : \E t \in Ops(h, {"type"}, k) : t < n
             /\ (Ops(h, {"wait_marker"}, k) # {} \/ (At(h, "wait") /\ idx[h] = k)) =>
                   Cardinality(clicks) + Cardinality(enters) = 1

\* a batch in which the first url was submitted by a click and the second one by
\* Enter, both on their way to the render wait
C12_Witness ==
    \E h \in Handlers :
        /\ Ops(h, {"click"}, 1) # {} /\ Ops(h, {"wait_marker"}, 1) # {}
        /\ Ops(h, {"enter"}, 2) # {} /\ Ops(h, {"wait_marker"}, 2) # {}

\* the render wait of url k has ended by success or by timeout: the marker was
\* found, or its wait timed out and the fallback ended, by growth or by timeout
WaitEnded(h, k) ==
    \E n \in Ops(h, {"wait_marker"}, k) :
        \/ site[h][n][3][1] = "found"
        \/ /\ site[h][n][3][1] = "timeout"
           /\ n < Len(site[h])
           /\ \/ site[h][n + 1][1] = "sleep"
              \/ site[h][n + 1][1] = "wait_growth" /\ site[h][n + 1][3][1] \in {"grown", "timeout"}

\* C13: once the url is submitted and the waits have ended, by success or by
\* timeout, extraction is reached and what it finds (possibly nothing) is returned
\* without an error: when the analysis of the url is left, extraction was done for
\* it and the analysis was left by returning.
C13_ExtractionReached ==
    \A h \in Handlers :
        (apc[h] \in {"returned", "raised"} /\ idx[h] > 0 /\ WaitEnded(h, idx[h])) =>
            /\ Ops(h, {"extract"}, idx[h]) # {}
            /\ apc[h] = "returned"
            /\ ret[h].kind = "return"

\* the analysis of a url is under way: the function was called and is not yet left
InAnalysis(h) == pc[h] \in {"p2", "run"} /\ apc[h] \notin {"returned", "raised"}

\* C14: every browser session that is created is closed before the analysis of its
\* url returns or raises, on every exit path and in every variant: quit() has been
\* called on every session created, but for the session of the url whose analysis
\* is under way, and a session is open only while its analysis is under way.
C14_SessionClosed ==
    \A h \in Handlers :
        /\ \A n \in AllOps(h, {"create"}) :
              \/ InAnalysis(h) /\ site[h][n][2] = idx[h]
              \/ \E q \in Ops(h, {"quit", "quit_failed"}, site[h][n][2]) : n < q
        /\ driver[h] = "open" => InAnalysis(h)

\* the analysis of a url was left because no input field was found, with the
\* session it had created quit
C14_Witness ==
    \E h \in Handlers :
        /\ apc[h] \in {"returned", "raised"}
        /\ driver[h] = "closed"
        /\ Ops(h, {"create"}, idx[h]) # {}
        /\ Ops(h, {"quit"}, idx[h]) # {}
        /\ input_el[h] = "none"

----------------------------------------------------------------------------
(* Properties of what a response reports *)

\* positions of the progress events of url k with counter p
ProgressFor(h, k, p) == {i \in NamedFor(h, "progress", k) : events[h][i].p = p}

\* C15: the web variants yield progress events as the steps are done.  For each url the
\* session is created after the progress event p=1 and before the progress event
\* p=2 (once p=2 is out, the attempt to create the session was made); the url is
\* typed and submitted after p=2 and before p=3 (once p=3 is out the analysis of
\* the url is over); and the `result` event comes after p=3.
C15_StepsBetweenProgress ==
    variant \in {"app", "complete"} =>
    \A h \in Handlers : \A k \in 1..Len(urls[h]) :
        LET created == Ops(h, {"create", "create_failed"}, k)
            submitted == Ops(h, {"type", "click", "enter", "enter_failed"}, k)
        IN /\ created # {} => ProgressFor(h, k, 1) # {}
           /\ ProgressFor(h, k, 2) # {} => created # {}
           /\ submitted # {} => ProgressFor(h, k, 2) # {}
           /\ ProgressFor(h, k, 3) # {} => ~(InAnalysis(h) /\ idx[h] = k)
           /\ \A r \in NamedFor(h, "result", k) : \E i \in ProgressFor(h, k, 3) : i < r

\* the messages of the debug events of url k, in the order of the response
DebugMessages(h, k) ==
    LET ds == SelectSeq(events[h], LAMBDA e : e.event = "debug" /\ e.index = k)
    IN [n \in DOMAIN ds |-> ds[n].message]

\* the generator is past the loop over the debug messages of the url of idx
PastDebug(h) == pc[h] \in {"debug", "p3", "result", "p5", "finished"} /\ idx[h] > 0

\* C16: the debug log belongs to one url.  Once the analysis of url i has returned
\* its log and the loop over it is through, the debug events with index i are
\* exactly the entries of that log, in the order they were appended, the last one
\* being 'Closing driver...' when a session was torn down; before that, and for
\* the urls not yet started, there is no debug event with their index.
C16_DebugLogOfUrl ==
    \A h \in Handlers :
        /\ PastDebug(h) =>
              /\ DebugMessages(h, idx[h]) = debug_log[h]
              /\ Ops(h, {"quit", "quit_failed"}, idx[h]) # {} =>
                    debug_log[h][Len(debug_log[h])] = Msg("Closing driver...", <<>>)
        /\ \A k \in 1..Len(urls[h]) :
              (k > idx[h] \/ (k = idx[h] /\ ~PastDebug(h))) => NamedFor(h, "debug", k) = {}

\* the log of the second url of a batch, ending with 'Closing driver...', has been
\* emitted with index 2 after the log of the first url with index 1
C16_Witness ==
    \E h \in Handlers :
        /\ pc[h] = "p3" /\ idx[h] = 2
        /\ Len(debug_log[h]) >= 2
        /\ DebugMessages(h, 2) = debug_log[h]
        /\ debug_log[h][Len(debug_log[h])] = Msg("Closing driver...", <<>>)
        /\ NamedFor(h, "debug", 1) # {}

\* the `u` parameters of a request that are not blank
NonBlank(params) ==
    {i \in DOMAIN params : \E j \in DOMAIN params[i] : params[i][j] \notin Whitespace}

\* C17: the `total` of `init` is the number of non-blank `u` parameters of the
\* request, which is the number of urls of the batch; and when `done` is emitted
\* there are exactly `total` start_url events and `total` result events, one of
\* each for every index from 1 to total.
C17_TotalCounts ==
    \A h \in Handlers :
        /\ pc[h] \in {"new", "init"} => Len(urls[h]) = Cardinality(NonBlank(req[h]))
        /\ pc[h] = "init" => events[h][1].total = Cardinality(NonBlank(req[h]))
        /\ Named(h, "init") # {} => events[h][1].total = Len(urls[h])
        /\ Named(h, "done") # {} =>
              LET total == events[h][1].total
              IN /\ Cardinality(Named(h, "start_url")) = total
                 /\ Cardinality(Named(h, "result")) = total
                 /\ \A k \in 1..total :
                       /\ Cardinality(NamedFor(h, "start_url", k)) = 1
                       /\ Cardinality(NamedFor(h, "result", k)) = 1

\* a batch of two urls is done
C17_Witness ==
    \E h \in Handlers :
        /\ Named(h, "done") # {}
        /\ events[h][1].total = 2
        /\ Cardinality(Named(h, "start_url")) = 2 /\ Cardinality(Named(h, "result")) = 2

----------------------------------------------------------------------------
(* Properties of the Run State and of the Result Records *)

\* the normalized form of a raw url
NormalUrl(raw) == IF HasScheme(raw) THEN raw ELSE HTTPS \o raw

\* the last `result` event of the response of h that reports url u
LastResult(h, u) ==
    LET rs == {i \in Named(h, "result") : events[h][i].url = u}
    IN CHOOSE i \in rs : \A j \in rs : j <= i

\* C18: the Run State maps each url to its most recent Result Record.  While a
\* batch runs and when it is done, the Run State holds one entry for every
\* normalized url the batch has reported a result for, and that entry is the
\* record of the last result reported for the url; so after the batch the number of
\* entries is the number of distinct normalized urls of the batch.
C18_MostRecentRecord ==
    variant = "app" =>
        \A h \in Handlers :
            Named(h, "init") # {} =>
                /\ dict_keys(analysis_results) = {events[h][i].url : i \in Named(h, "result")}
                /\ Len(analysis_results) = Cardinality(dict_keys(analysis_results))
                /\ \A n \in DOMAIN analysis_results :
                      LET e == events[h][LastResult(h, analysis_results[n].k)]
                      IN analysis_results[n].v =
                            IF "data" \in DOMAIN e THEN e.data
                            ELSE [k \in {"Company", "URL", "Overall Score"} |->
                                    IF k = "Company" THEN <<"Analysis Failed">>
                                    ELSE IF k = "URL" THEN analysis_results[n].k ELSE DASH]
                /\ Named(h, "done") # {} =>
                      Len(analysis_results)
                          = Cardinality({NormalUrl(urls[h][k]) : k \in 1..Len(urls[h])})

\* a batch of `a` and `https://a` is done: two results with different records were
\* reported for the one normalized url, and the Run State holds the second
C18_Witness ==
    \E h \in Handlers :
        /\ variant = "app" /\ Named(h, "done") # {}
        /\ urls[h] = <<<<"a">>, HTTPS \o <<"a">>>>
        /\ Len(analysis_results) = 1
        /\ \E i, j \in Named(h, "result") :
              /\ i < j
              /\ "data" \in DOMAIN events[h][i] /\ "data" \in DOMAIN events[h][j]
              /\ events[h][i].data # events[h][j].data
              /\ analysis_results[1].v = events[h][j].data

\* the Result Records there are: the data of the `result` events and the records
\* of the Run State
ResultRecords ==
    UNION {{events[h][i].data : i \in {j \in Named(h, "result") : "data" \in DOMAIN events[h][j]}} :
              h \in Handlers}
        \cup {analysis_results[n].v : n \in DOMAIN analysis_results}

\* C19: every value of a Result Record is a non-empty string, the placeholder "-"
\* or non-empty extracted text: text that is empty, or empty once cleaned, and a
\* score or description element without text are stored as "-".
C19_NonEmptyValues ==
    \A r \in ResultRecords : \A k \in DOMAIN r : r[k] # <<>>

----------------------------------------------------------------------------
(* Property of the textual field parser *)

\* the tokens of text from a up to b - 1 are what \s*[:\-]?\s* matches
PrefixOk(text, a, b) ==
    \E m \in a..b :
        /\ \A x \in a..(m - 1) : text[x] \in Whitespace
        /\ \/ \A x \in m..(b - 1) : text[x] \in Whitespace
           \/ /\ m <= b - 1 /\ text[m] \in {":", "-"}
              /\ \A x \in (m + 1)..(b - 1) : text[x] \in Whitespace

\* the label occurs in the text, followed by \s*[:\-]?\s* and a token of `first`,
\* the tokens a captured value may start with
LabelMatches(text, lab, first) ==
    \E i \in DOMAIN text :
        /\ i + Len(lab) - 1 <= Len(text)
        /\ \A n \in DOMAIN lab : lower(text[i + n - 1]) = lower(lab[n])
        /\ \E j \in (i + Len(lab))..Len(text) :
              text[j] \in first /\ PrefixOk(text, i + Len(lab), j)

\* the tokens of the text
Tokens(text) == {text[i] : i \in DOMAIN text}

\* the labels of the list that match: for a score a digit must follow, for a
\* one-line block a token other than the line break, for a block any token
ScoreMatching(text, labels) ==
    {k \in DOMAIN labels : LabelMatches(text, labels[k], Digits)}
BlockMatching(text, labels, multiline) ==
    {k \in DOMAIN labels :
        LabelMatches(text, labels[k],
                     IF multiline THEN Tokens(text) ELSE Tokens(text) \ {"\n"})}

First(S) == CHOOSE k \in S : \A j \in S : k <= j

\* C20: the textual parser is first-match-wins over the label synonyms: _grab_score
\* and _grab_block return the value captured for the first label of the list that
\* matches anywhere in the text, whatever later labels match and wherever, and the
\* placeholder "-" when no label matches.
C20_FirstLabelWins ==
    grabbed # NotGrabbed =>
        LET sm == ScoreMatching(raw_text, OverallScoreLabels)
            cm == BlockMatching(raw_text, CompanyLabels, FALSE)
            dm == BlockMatching(raw_text, DescriptionLabels, TRUE)
        IN /\ grabbed.score =
                 IF sm = {} THEN DASH
                 ELSE search_score(raw_text, OverallScoreLabels[First(sm)], 1)
           /\ grabbed.company =
                 IF cm = {} THEN DASH
                 ELSE strip(search_block(raw_text, CompanyLabels[First(cm)], FALSE, 1)[2])
           /\ grabbed.description =
                 IF dm = {} THEN DASH
                 ELSE strip(search_block(raw_text, DescriptionLabels[First(dm)], TRUE, 1)[2])

\* `Score 7` comes first in the text and `Overall Score: 8` after it: both labels
\* match, and the score grabbed is the 8 of the first label of the list
C20_Witness ==
    /\ grabbed # NotGrabbed
    /\ raw_text = <<"Score", " ", "7", "\n", "Overall", " ", "Score", ":", " ", "8">>
    /\ ScoreMatching(raw_text, OverallScoreLabels) = {1, 2}
    /\ search_score(raw_text, OverallScoreLabels[2], 1) = <<"7">>
    /\ grabbed.score = <<"8">>

----------------------------------------------------------------------------
(* Properties of the order of the steps, of a missing input field, of the   *)
(* result events and of the progress counter                                *)

\* the step of the interaction an operation on the browser belongs to: 1 create
\* session, 2 navigate, 3 cookie banner, 4 locate input, 5 clear, 6 fill, 7 submit,
\* 8 wait for rendering, 9 extract, 10 close
StepOf ==
    [name \in {"create", "create_failed", "get", "cookie_check", "cookie_click", "find",
               "clear", "clear_failed", "type", "click", "enter", "enter_failed",
               "wait_marker", "sleep", "wait_growth", "extract", "quit", "quit_failed"} |->
        CASE name \in {"create", "create_failed"} -> 1
          [] name = "get" -> 2
          [] name \in {"cookie_check", "cookie_click"} -> 3
          [] name = "find" -> 4
          [] name \in {"clear", "clear_failed"} -> 5
          [] name = "type" -> 6
          [] name \in {"click", "enter", "enter_failed"} -> 7
          [] name \in {"wait_marker", "sleep", "wait_growth"} -> 8
          [] name = "extract" -> 9
          [] name \in {"quit", "quit_failed"} -> 10]

\* the operations that make a step; a cookie click, the sleep and the growth poll
\* come with the step they belong to
StepNames ==
    {"create", "create_failed", "get", "cookie_check", "find", "clear", "clear_failed",
     "type", "click", "enter", "enter_failed", "wait_marker", "extract", "quit",
     "quit_failed"}

\* positions of the operations that make step s of url k
StepOps(h, k, s) == {n \in Ops(h, StepNames, k) : StepOf[site[h][n][1]] = s}

\* the target url the analysis of url k is called with
TargetOf(h, k) == IF variant = "terminal" THEN urls[h][1] ELSE NormalUrl(urls[h][k])

C22_NoInputField ==
    variant \in {"app", "complete"} =>
        \A h \in Handlers :
            (input_el[h] = "none" /\ pc[h] \in {"p2", "raised"}) =>
                /\ Ops(h, {"clear", "clear_failed", "type", "click", "enter", "enter_failed",
                           "wait_marker", "sleep", "wait_growth", "extract"}, idx[h]) = {}
                /\ \E n \in DOMAIN debug_log[h] :
                      debug_log[h][n] = Msg("ERROR: Could not locate input field!", <<>>)
                /\ ~InAnalysis(h) =>
                      /\ apc[h] # "raised"
                      /\ ret[h] = Returned(<<>>)
                      /\ Ops(h, {"quit", "quit_failed"}, idx[h]) # {}

\* C23: each `result` event carries exactly one of `data` and `error`: `error`
\* if and only if the analysis of its url returned an empty extraction, `data`
\* otherwise.  In app.py a record of the url is stored in the Run State in both
\* cases, so a batch that is done leaves the Run State non-empty, and a
\* /download-excel that follows it, before another batch starts, does not answer
\* 'No analysis results available'.
C23_DataOrError ==
    \A h \in Handlers :
        /\ \A i \in Named(h, "result") :
              ("data" \in DOMAIN events[h][i]) # ("error" \in DOMAIN events[h][i])
        /\ pc[h] = "result" =>
              LET e == events[h][Len(events[h])]
              IN /\ e.event = "result" /\ e.index = idx[h]
                 /\ "error" \in DOMAIN e <=> ret[h].raw = <<>>
                 /\ "data" \in DOMAIN e <=> ret[h].raw # <<>>
                 /\ variant = "app" => e.url \in dict_keys(analysis_results)
        /\ (variant = "app" /\ pc[h] = "finished") =>
              /\ analysis_results # <<>>
              /\ xl.status # 400
              /\ xl.error # "No analysis results available"

\* a batch of one url whose analysis returned nothing is done: its result carried
\* `error`, the Run State holds its record, and /download-excel sent a spreadsheet
C23_Witness ==
    \E h \in Handlers :
        /\ variant = "app" /\ pc[h] = "finished"
        /\ Cardinality(Named(h, "result")) = 1
        /\ \A i \in Named(h, "result") : "error" \in DOMAIN events[h][i]
        /\ Len(analysis_results) = 1
        /\ analysis_results[1].v["Company"] = <<"Analysis Failed">>
        /\ xl.status = 200

\* C24: for every url of a batch, in both web variants, the counter p of the url's
\* progress events is strictly increasing, never exceeds `of`, and the progress
\* event of phase 'Done', the last one of the url, has p equal to `of`, 5 of 5.
C24_ProgressCounter ==
    variant \in {"app", "complete"} =>
        \A h \in Handlers : \A k \in 1..Len(urls[h]) :
            LET ps == NamedFor(h, "progress", k)
            IN /\ \A i, j \in ps : i < j => events[h][i].p < events[h][j].p
               /\ \A i \in ps : events[h][i].p <= events[h][i].of
               /\ \A i \in ps :
                     events[h][i].phase = "Done" =>
                         /\ \A j \in ps : j <= i
                         /\ events[h][i].of = 5
                         /\ events[h][i].p = events[h][i].of

----------------------------------------------------------------------------
(* Property of batches served at the same time *)

\* the Run State holds exactly the records of the batch of handler h: a record
\* stored by that batch for each of its urls, and nothing else
OwnRecords(h) ==
    /\ dict_keys(analysis_results) = {NormalUrl(urls[h][k]) : k \in 1..Len(urls[h])}
    /\ \A n \in DOMAIN analysis_results : analysis_results[n].by = h

\* C25: for any interleaving of two /stream batches served by separate threads,
\* when a batch emits `done` the Run State holds exactly the records of that
\* batch's urls: no record of the other batch is there and none of its own is lost.
C25_DoneWithOwnRecords ==
    [][\A h \in Handlers : (pc[h] # "finished" /\ pc'[h] = "finished") => OwnRecords(h)']_vars

----------------------------------------------------------------------------
(* Properties of what a request leaves alone, and of the command line *)

\* C26: a GET /stream whose `u` parameters are all missing or blank after trimming,
\* and no other, is rejected with HTTP 400; the rejected request emits no event,
\* creates no browser session and leaves the Run State as the batch before left
\* it; and GET /download-excel never modifies the Run State.
C26_RejectedLeavesNoTrace ==
    /\ [](\A h \in Handlers :
            /\ pc[h] \in {"new", "rejected"} =>
                  (pc[h] = "rejected" <=> NonBlank(req[h]) = {})
            /\ pc[h] = "rejected" =>
                  /\ http[h] = 400
                  /\ events[h] = <<>>
                  /\ site[h] = <<>>
                  /\ driver[h] = "none")
    /\ [][/\ \A h \in Handlers :
               (pc[h] # "rejected" /\ pc'[h] = "rejected") =>
                   /\ analysis_results' = analysis_results
                   /\ events' = events
                   /\ site' = site
          /\ xl' # NoResponse => analysis_results' = analysis_results]_vars

\* a request of blank parameters alone was rejected while the Run State holds the
\* records of the batch before
C26_Witness ==
    \E h \in Handlers :
        /\ pc[h] = "rejected" /\ http[h] = 400
        /\ req[h] = <<<<" ">>, <<" ">>>>
        /\ analysis_results # <<>>
        /\ \A n \in DOMAIN analysis_results : analysis_results[n].by = "old"

\* the command line has been read and its target carries a scheme once trimmed
Accepted == argv # NoArgs /\ HasScheme(strip(argv.url))

\* the options the command line asks for: headless unless --no-headless is given,
\* the value of --timeout or 45
AskedFor == <<~argv.no_headless, IF argv.timeout = <<>> THEN 45 ELSE argv.timeout[1]>>

\* what holds of the command-line program whatever becomes of the session: a
\* target without a scheme is rejected with the message and exit status 1, nothing
\* is done to a browser for it and no scheme is put before it; a target with a
\* scheme is handed to run() as it is, trimmed; a session is created with the
\* options asked for, and the waits run under the timeout asked for
CommandLineHandled(h) ==
    /\ (argv # NoArgs /\ ~Accepted) =>
          /\ pc[h] = "exited" /\ status = 1
          /\ out = <<Msg("[!] Please provide a full URL starting with http:// or https://",
                         <<>>)>>
          /\ site[h] = <<>> /\ urls[h] = <<>> /\ driver[h] = "none"
    /\ Accepted =>
          /\ urls[h] = <<strip(argv.url)>>
          /\ \A n \in AllOps(h, {"create", "create_failed"}) : site[h][n][3] = AskedFor
          /\ \A n \in AllOps(h, {"wait_marker", "wait_growth"}) :
                site[h][n][3][2] = AskedFor[2]
          /\ \A n \in AllOps(h, {"type"}) : site[h][n][3] = strip(argv.url)

\* C27 as stated: the command-line entry point creates no session for a target
\* that does not start with http:// or https://, which is not normalized but
\* rejected with a message and exit status 1; for a target with a scheme exactly
\* one session is created, headless unless --no-headless is given, with the
\* timeout of --timeout or 45.
C27_ExactlyOneSessionForTarget ==
    variant = "terminal" =>
        /\ CommandLineHandled(MainHandler)
        /\ (Accepted /\ apc[MainHandler] # "start") =>
              Cardinality(AllOps(MainHandler, {"create"})) = 1

\* C27, amended: as stated, but for a target with a scheme exactly one attempt
\* to create a session is made, so that there is at most one session, and
\* none when the attempt fails.
C27_OneAttemptForTarget ==
    variant = "terminal" =>
        /\ CommandLineHandled(MainHandler)
        /\ (Accepted /\ apc[MainHandler] # "start") =>
              /\ Cardinality(AllOps(MainHandler, {"create", "create_failed"})) = 1
              /\ Cardinality(AllOps(MainHandler, {"create"})) <= 1

\* `--no-headless --timeout 10 " http://b"` has run to its end with exit status 0:
\* one session, with a window and the timeout 10, was given the trimmed target
C27_Witness ==
    /\ variant = "terminal" /\ pc[MainHandler] = "exited" /\ status = 0
    /\ argv = [url |-> <<" ">> \o HTTP \o <<"b">>, no_headless |-> TRUE, timeout |-> <<10>>]
    /\ \E n \in AllOps(MainHandler, {"create"}) : site[MainHandler][n][3] = <<FALSE, 10>>
    /\ \E n \in AllOps(MainHandler, {"type"}) : site[MainHandler][n][3] = HTTP \o <<"b">>
    /\ \E n \in AllOps(MainHandler, {"wait_marker"}) : site[MainHandler][n][3][2] = 10

====
